---------------------------- MODULE Spec2Model ----------------------------
(***************************************************************************)
(* A model of autolv's control value model (src/autolv/datatypes.py).      *)
(*                                                                         *)
(* Python values are tagged tuples <<kind, payload, ...>>; the kind is the *)
(* Python type that isinstance() inspects.  A str payload is the tuple of  *)
(* its characters, so that int(), pathlib.Path() and str() are computed.   *)
(* A control is a record; a Cluster's _ctrls dict is the sequence of its   *)
(* (key, control) entries in insertion order, the controls themselves      *)
(* living in the heap obj.  An exception leaves the state as it was at the *)
(* raise, and its class is recorded in last.err.                           *)
(***************************************************************************)
EXTENDS Integers, Sequences, FiniteSets, TLC

VARIABLES
    ctrls,   \* Cluster._ctrls: sequence of [key, ctl], dict insertion order
    obj,     \* heap: control id -> control record
    cattrs,  \* the Cluster's own read-only attributes found in __dict__
    last,    \* the call whose outcome the caller holds: [op, item, arg, err]
    pre,     \* [ctrls, obj, cattrs] as they were when that call began
    remote   \* the LabVIEW side of a VI: its front panel values by control name

vars == <<ctrls, obj, cattrs, last, pre, remote>>

-----------------------------------------------------------------------------
(* Python values *)

F(n) == <<"float", n>>
I(n) == <<"int", n>>
B(b) == <<"bool", b>>
S(s) == <<"str", s>>
T(s) == <<"tuple", s>>
L(s) == <<"list", s>>
ND(s) == <<"ndarray", s>>
P(parts) == <<"Path", parts>>
DT(fields, tz) == <<"datetime", fields, tz>>
None == <<"NoneType">>
Unset == <<"unset">>

Kind(v) == v[1]

\* isinstance(v, str), isinstance(v, bool), ...; bool is a subclass of int,
\* and int, float and bool are all registered numbers.Number
IsStr(v) == Kind(v) = "str"
IsBool(v) == Kind(v) = "bool"
IsInt(v) == Kind(v) \in {"int", "bool"}
IsNumber(v) == Kind(v) \in {"int", "float", "bool"}
IsTuple(v) == Kind(v) = "tuple"
IsDatetime(v) == Kind(v) = "datetime"
IsPath(v) == Kind(v) = "Path"
IsDict(v) == Kind(v) = "dict"
\* hasattr(v, "__iter__")
HasIter(v) == Kind(v) \in {"str", "tuple", "list", "ndarray", "dict"}

\* the integer a bool or int stands for
IntOf(v) == IF IsBool(v) THEN (IF v[2] THEN 1 ELSE 0) ELSE v[2]

-----------------------------------------------------------------------------
(* int(str): optional surrounding blanks, optional sign, decimal digits *)

Digits == <<"0", "1", "2", "3", "4", "5", "6", "7", "8", "9">>
IsDigit(ch) == \E d \in 1..10 : Digits[d] = ch
DigitVal(ch) == (CHOOSE d \in 1..10 : Digits[d] = ch) - 1

RECURSIVE LStrip(_)
LStrip(s) == IF s # <<>> /\ Head(s) = " " THEN LStrip(Tail(s)) ELSE s

RECURSIVE RStrip(_)
RStrip(s) ==
    IF s # <<>> /\ s[Len(s)] = " " THEN RStrip(SubSeq(s, 1, Len(s) - 1)) ELSE s

RECURSIVE DigitsVal(_, _)
DigitsVal(s, acc) ==
    IF s = <<>> THEN acc ELSE DigitsVal(Tail(s), 10 * acc + DigitVal(Head(s)))

\* [ok, n]: ok is false where Python raises ValueError
ParseInt(s) ==
    LET t == RStrip(LStrip(s))
        signed == t # <<>> /\ Head(t) \in {"-", "+"}
        body == IF signed THEN Tail(t) ELSE t
        good == body # <<>> /\ \A i \in 1..Len(body) : IsDigit(body[i])
    IN  IF ~good THEN [ok |-> FALSE, n |-> 0]
        ELSE [ok |-> TRUE,
              n |-> IF signed /\ Head(t) = "-"
                    THEN 0 - DigitsVal(body, 0) ELSE DigitsVal(body, 0)]

-----------------------------------------------------------------------------
(* pathlib.Path(str) and str(Path), relative paths with "/" separators *)

RECURSIVE SplitParts(_, _, _)
\* the components of s between separators; empty and "." components dropped
SplitParts(s, cur, acc) ==
    LET keep == IF cur = <<>> \/ cur = <<".">> THEN acc ELSE Append(acc, cur)
    IN  IF s = <<>> THEN keep
        ELSE IF Head(s) = "/" THEN SplitParts(Tail(s), <<>>, keep)
        ELSE SplitParts(Tail(s), Append(cur, Head(s)), acc)

PathOf(v) == IF IsPath(v) THEN v ELSE P(SplitParts(v[2], <<>>, <<>>))

RECURSIVE JoinParts(_)
JoinParts(parts) ==
    IF Len(parts) = 0 THEN <<>>
    ELSE IF Len(parts) = 1 THEN parts[1]
    ELSE parts[1] \o <<"/">> \o JoinParts(Tail(parts))

PathStr(p) == IF p[2] = <<>> THEN S(<<".">>) ELSE S(JoinParts(p[2]))

-----------------------------------------------------------------------------
(* datetime called on the unpacked tuple: year, month, day[, hour] *)

IsLeap(y) == (y % 4 = 0 /\ y % 100 # 0) \/ y % 400 = 0
DaysInMonth(y, m) ==
    IF m = 2 THEN (IF IsLeap(y) THEN 29 ELSE 28)
    ELSE IF m \in {4, 6, 9, 11} THEN 30 ELSE 31

\* [err, v]: TypeError for a wrong argument count or a non-integer argument,
\* ValueError for a field out of range
DatetimeOf(t) ==
    LET a == t[2]
        n == Len(a)
    IN  IF n < 3 \/ n > 8 \/ \E i \in 1..n : ~IsInt(a[i])
        THEN [err |-> "TypeError", v |-> None]
        ELSE LET y == IntOf(a[1])
                 m == IntOf(a[2])
                 d == IntOf(a[3])
                 h == IF n >= 4 THEN IntOf(a[4]) ELSE 0
             IN  IF y \in 1..9999 /\ m \in 1..12 /\ d \in 1..DaysInMonth(y, m)
                    /\ h \in 0..23
                 THEN [err |-> "none", v |-> DT(<<y, m, d, h>>, "naive")]
                 ELSE [err |-> "ValueError", v |-> None]

LV_EPOCH == DT(<<1904, 1, 1, 0>>, "utc")

-----------------------------------------------------------------------------
(* numpy.array(sequence): a flat sequence of numbers takes one dtype *)

AllNumbers(s) == \A i \in 1..Len(s) : IsNumber(s[i])

NpCast(v, dtype) ==
    IF dtype = "float" THEN F(IntOf(v))
    ELSE IF dtype = "int" THEN I(IntOf(v))
    ELSE IF dtype = "bool" /\ IsNumber(v) THEN B(IntOf(v) # 0)
    ELSE v

NpArray(v) ==
    LET s == v[2]
        dtype == IF \E i \in 1..Len(s) : Kind(s[i]) = "float" THEN "float"
                 ELSE IF \E i \in 1..Len(s) : Kind(s[i]) = "int" THEN "int"
                 ELSE "bool"
    IN  IF Len(s) > 0 /\ AllNumbers(s)
        THEN ND([i \in 1..Len(s) |-> NpCast(s[i], dtype)])
        ELSE ND(s)

\* the dtype of a flat array of numbers
DtypeOf(s) ==
    IF \E i \in 1..Len(s) : Kind(s[i]) = "float" THEN "float"
    ELSE IF \E i \in 1..Len(s) : Kind(s[i]) = "int" THEN "int"
    ELSE "bool"

\* arr[index] = value on a numpy array (index 0-based): [err, v]; a number is
\* cast to the array's dtype, a row takes a number or a sequence of its length
NpSetItem(arr, index, value) ==
    IF index >= Len(arr[2]) THEN [err |-> "IndexError", v |-> arr]
    ELSE IF AllNumbers(arr[2])
    THEN IF IsNumber(value)
         THEN [err |-> "none",
               v |-> ND([arr[2] EXCEPT ![index + 1] = NpCast(value, DtypeOf(arr[2]))])]
         ELSE [err |-> IF HasIter(value) THEN "ValueError" ELSE "TypeError", v |-> arr]
    ELSE IF IsNumber(value)
    THEN [err |-> "none",
          v |-> ND([arr[2] EXCEPT ![index + 1] =
                       <<Kind(@), [j \in 1..Len(@[2]) |-> value]>>])]
    ELSE IF Kind(value) \in {"list", "tuple", "ndarray"}
            /\ Kind(arr[2][index + 1]) \in {"list", "tuple", "ndarray"}
            /\ Len(value[2]) = Len(arr[2][index + 1][2])
    THEN [err |-> "none", v |-> ND([arr[2] EXCEPT ![index + 1] = value])]
    ELSE [err |-> "ValueError", v |-> arr]

-----------------------------------------------------------------------------
(* is_ragged *)

PyLen(x) == IF Kind(x) \in {"list", "tuple", "ndarray", "str"} THEN Len(x[2]) ELSE -1

RECURSIVE is_ragged(_, _)
RECURSIVE is_ragged_loop(_, _, _)

is_ragged_loop(array, i, res) ==
    IF i > Len(array[2]) THEN res
    ELSE is_ragged_loop(array, i + 1, res \/ is_ragged(array[2][i], res))

\* an is_ragged that compares the elements' lengths but never looks inside them
is_ragged_TopOnly(array, res) ==
    IF PyLen(array) <= 0 THEN res
    ELSE res \/ \E i \in 1..Len(array[2]) : PyLen(array[2][i]) # PyLen(array[2][1])

is_ragged(array, res) ==
    IF PyLen(array) <= 0 THEN res
    ELSE LET elem0_sz == PyLen(array[2][1])
             res1 == res \/ \E i \in 1..Len(array[2]) : PyLen(array[2][i]) # elem0_sz
         IN  is_ragged_loop(array, 1, res1)

-----------------------------------------------------------------------------
(* Controls *)

READONLY_ATTRIBUTES ==
    {"ID", "type", "name", "description", "tip", "caption", "unitlabel", "pages"}

IORefNumFamily ==
    {"IORefNum", "IVILogicalName", "VISAResourceName", "SharedVariable", "UDRefNum"}

\* a control object: its class, _value and the read-only attributes present
\* in its __dict__; a Ring has its _items as well, a WaveformGraph the
\* attributes t0, dt and Y (Unset until first assigned), and an ArrayCluster
\* its _cluster (the element layout, given in place of items)
Control(cls, value, attrs, items) ==
    IF cls = "Ring"
    THEN [cls |-> cls, value |-> value, attrs |-> attrs, items |-> items]
    ELSE IF cls = "ArrayCluster"
    THEN [cls |-> cls, value |-> value, attrs |-> attrs, cluster |-> items]
    ELSE IF cls = "WaveformGraph"
    THEN [cls |-> cls, value |-> value, attrs |-> attrs,
          t0 |-> Unset, dt |-> Unset, Y |-> Unset]
    ELSE [cls |-> cls, value |-> value, attrs |-> attrs]

Raise(c, e) == [c |-> c, err |-> e]
Store(c, v) == [c |-> [c EXCEPT !.value = v], err |-> "none"]

\* a Numeric setter that stores before it validates
NumericSet_StoreFirst(c, new_value) ==
    IF ~IsNumber(new_value) THEN Raise([c EXCEPT !.value = new_value], "AutoLVError")
    ELSE Store(c, new_value)

NumericSet(c, new_value) ==
    IF ~IsNumber(new_value) THEN Raise(c, "AutoLVError") ELSE Store(c, new_value)

\* a Boolean setter that tests isinstance(new_value, int)
BooleanSet_IntOk(c, new_value) ==
    IF ~IsInt(new_value) THEN Raise(c, "AutoLVError") ELSE Store(c, new_value)

BooleanSet(c, new_value) ==
    IF ~IsBool(new_value) THEN Raise(c, "AutoLVError") ELSE Store(c, new_value)

ArraySet(c, new_value) ==
    IF IsStr(new_value) \/ ~HasIter(new_value) THEN Raise(c, "AutoLVError")
    ELSE Store(c, NpArray(new_value))

StringSet(c, value) ==
    IF ~IsStr(value) THEN Raise(c, "AutoLVError") ELSE Store(c, value)

PathSet(c, value) ==
    IF ~(IsStr(value) \/ IsPath(value)) THEN Raise(c, "AutoLVError")
    ELSE Store(c, PathOf(value))

TimeStampSet(c, value) ==
    LET conv == IF IsTuple(value) THEN DatetimeOf(value)
                ELSE [err |-> "none", v |-> value]
    IN  IF conv.err # "none" THEN Raise(c, conv.err)
        ELSE IF ~IsDatetime(conv.v) THEN Raise(c, "AutoLVError")
        ELSE Store(c, conv.v)

EnumSet(c, value) ==
    LET parsed == IF IsStr(value) THEN ParseInt(value[2]) ELSE [ok |-> TRUE, n |-> 0]
        v == IF IsStr(value) THEN I(parsed.n) ELSE value
    IN  IF ~parsed.ok THEN Raise(c, "ValueError")
        ELSE IF ~IsInt(v) THEN Raise(c, "AutoLVError")
        ELSE Store(c, v)

IORefNumSet(c, value) ==
    LET v == IF IsStr(value) THEN T(<<value, I(0)>>) ELSE value
    IN  IF ~IsTuple(v) THEN Raise(c, "AutoLVError") ELSE Store(c, v)

\* list.index: the 0-based position of the first equal item
ListIndex(items, value) ==
    (CHOOSE i \in 1..Len(items) :
        items[i] = value /\ \A j \in 1..(i - 1) : items[j] # value) - 1

RingSet(c, value) ==
    IF IsStr(value)
    THEN IF c.items = None THEN Raise(c, "AttributeError")
         ELSE IF \A i \in 1..Len(c.items) : c.items[i] # value
              THEN Raise(c, "ValueError")
              ELSE Store(c, I(ListIndex(c.items, value)))
    ELSE Store(c, value)

\* numpy.array of one element of a sequence
NpArrayOf(v) == IF Kind(v) \in {"list", "tuple", "ndarray"} THEN NpArray(v) ELSE <<"ndarray0", v>>

\* a setter that stores the triple but leaves t0, dt and Y as they were
WaveformGraphSet_NoAttrs(c, value) ==
    IF IsStr(value) \/ ~HasIter(value) THEN Raise(c, "AutoLVError")
    ELSE IF ~is_ragged(value, FALSE) THEN Store(c, NpArray(value))
    ELSE IF Len(value[2]) < 3 THEN Raise(c, "IndexError")
    ELSE Store(c, L(value[2]))

WaveformGraphSet(c, value) ==
    IF IsStr(value) \/ ~HasIter(value) THEN Raise(c, "AutoLVError")
    ELSE IF ~is_ragged(value, FALSE) THEN Store(c, NpArray(value))
    ELSE LET lst == value[2]
             c0 == IF Len(lst) >= 1 THEN [c EXCEPT !.t0 = lst[1]] ELSE c
             c1 == IF Len(lst) >= 2 THEN [c0 EXCEPT !.dt = lst[2]] ELSE c0
         IN  IF Len(lst) < 3 THEN Raise(c1, "IndexError")
             ELSE Store([c1 EXCEPT !.Y = NpArrayOf(lst[3])], L(lst))

\* the attributes WaveformGraph.__setattr__ mirrors into the value, in order
GraphAttrs == <<"t0", "dt", "Y">>

\* super().__setattr__(item, value) for one of them
GraphAttrSet(c, item, value) ==
    CASE item = "t0" -> [c EXCEPT !.t0 = value]
      [] item = "dt" -> [c EXCEPT !.dt = value]
      [] item = "Y" -> [c EXCEPT !.Y = value]

\* the rest of WaveformGraph.__setattr__ once the value setter ended with r
GraphSetattrDone(r, item, value) ==
    IF r.err # "none" THEN r
    ELSE [c |-> GraphAttrSet(r.c, item, value), err |-> "none"]

\* lvalue[index] = value ended with si: its error, or the value setter is run
\* on lvalue (the stored object itself, so the store is already changed)
GraphSetattrItem(c, si, item, value) ==
    IF si.err # "none" THEN Raise(c, si.err)
    ELSE GraphSetattrDone(WaveformGraphSet([c EXCEPT !.value = si.v], si.v),
                          item, value)

\* WaveformGraph.__setattr__(item, value) for item in t0, dt, Y
WaveformGraphSetattr(c, item, value) ==
    IF Kind(c.value) = "list"
    THEN GraphSetattrItem(c,
            IF ListIndex(GraphAttrs, item) < Len(c.value[2])
            THEN [err |-> "none",
                  v |-> L([c.value[2] EXCEPT ![ListIndex(GraphAttrs, item) + 1] = value])]
            ELSE [err |-> "IndexError", v |-> c.value],
            item, value)
    ELSE IF Kind(c.value) = "ndarray"
    THEN GraphSetattrItem(c, NpSetItem(c.value, ListIndex(GraphAttrs, item), value),
                          item, value)
    ELSE Raise(c, "TypeError")

\* a setter that stores a list it is given
ArrayClusterSet_StoreList(c, value) ==
    IF Kind(value) = "list" THEN Store(c, value) ELSE Raise(c, "NotImplementedError")

ArrayClusterSet(c, value) == Raise(c, "NotImplementedError")

TabControlSet(c, value) == Store(c, None)

\* a setter that keeps what it is given
NotImplControlSet_Keep(c, value) == Store(c, value)

NotImplControlSet(c, value) == Store(c, None)

LeafClasses ==
    {"Numeric", "Boolean", "Array", "String", "Path", "TimeStamp", "Enum", "Ring",
     "WaveformGraph", "ArrayCluster", "TabControl", "NotImplControl"}
        \cup IORefNumFamily

\* `ctrl.value = new_value`: the property setter of the control's class
SetValue(c, new_value) ==
    CASE c.cls = "Numeric" -> NumericSet(c, new_value)
      [] c.cls = "Boolean" -> BooleanSet(c, new_value)
      [] c.cls = "Array" -> ArraySet(c, new_value)
      [] c.cls = "String" -> StringSet(c, new_value)
      [] c.cls = "Path" -> PathSet(c, new_value)
      [] c.cls = "TimeStamp" -> TimeStampSet(c, new_value)
      [] c.cls = "Enum" -> EnumSet(c, new_value)
      [] c.cls \in IORefNumFamily -> IORefNumSet(c, new_value)
      [] c.cls = "Ring" -> RingSet(c, new_value)
      [] c.cls = "WaveformGraph" -> WaveformGraphSet(c, new_value)
      [] c.cls = "ArrayCluster" -> ArrayClusterSet(c, new_value)
      [] c.cls = "TabControl" -> TabControlSet(c, new_value)
      [] c.cls = "NotImplControl" -> NotImplControlSet(c, new_value)

\* `ctrl.value`: Path.__getattribute__ turns the stored path into its str
GetValue(c) == IF c.cls = "Path" THEN PathStr(c.value) ELSE c.value

\* LV_Control.__setattr__ for a read-only attribute name
SetReadonly(c, item, value) ==
    IF item \in DOMAIN c.attrs THEN Raise(c, "AutoLVError")
    ELSE [c |-> [c EXCEPT !.attrs = [a \in DOMAIN c.attrs \cup {item} |->
                                        IF a = item THEN value ELSE c.attrs[a]]],
          err |-> "none"]

\* the class's __init__: kw is the keyword arguments [attrs, value, items],
\* value = Unset when the `value` keyword is absent
Construct(cls, kw) ==
    LET given(default) == IF kw.value = Unset THEN default ELSE kw.value
        \* TabControl.__init__ pops `pages` before LV_Control.__init__ sees it
        shown == IF cls = "TabControl" THEN DOMAIN kw.attrs \ {"pages"}
                 ELSE DOMAIN kw.attrs
        base == Control(cls, None, [a \in shown |-> kw.attrs[a]],
                        IF cls = "ArrayCluster" /\ "cluster" \in DOMAIN kw
                        THEN kw.cluster ELSE kw.items)
    IN  CASE cls = "Numeric" -> NumericSet(base, given(F(0)))
          [] cls = "Boolean" -> BooleanSet(base, given(B(FALSE)))
          [] cls = "Array" -> ArraySet(base, given(ND(<<>>)))
          [] cls = "WaveformGraph" -> Store(base, given(ND(<<>>)))
          [] cls = "String" -> Store(base, given(S(<<>>)))
          [] cls = "Path" ->
                IF IsStr(given(S(<<>>))) \/ IsPath(given(S(<<>>)))
                THEN Store(base, PathOf(given(S(<<>>))))
                ELSE Raise(base, "TypeError")
          [] cls = "TimeStamp" -> Store(base, given(LV_EPOCH))
          [] cls = "Enum" -> Store(base, given(I(0)))
          [] cls \in IORefNumFamily -> Store(base, given(T(<<S(<<>>), I(0)>>)))
          [] cls = "Ring" -> Store(base, given(I(0)))
          [] cls = "ArrayCluster" -> Store(base, given(L(<<>>)))
          [] cls = "TabControl" -> Store(base, None)
          [] cls = "NotImplControl" -> Store(base, None)

\* LV_Control.supported: _supported is True from LV_Control.__init__ and
\* False from NotImplControl.__init__
Supported(c) == c.cls # "NotImplControl"

\* the registry: declared type string -> class
LVControl_LU ==
    [ty \in {"Numeric", "Boolean", "String", "Path", "Time Stamp", "Enum",
             "IVI Logical Name", "Slide", "Array", "Cluster", "Measurement Data",
             "Classic DAQmx Physical Channel", "VISA resource name",
             "Classic Shared Variable Control", "Ring", "User Defined Refnum Tag",
             "Waveform Graph", "XY Graph", "Waveform Chart", "Tab Control",
             "ArrayCluster"} |->
        CASE ty = "Time Stamp" -> "TimeStamp"
          [] ty = "IVI Logical Name" -> "IVILogicalName"
          [] ty = "Slide" -> "Numeric"
          [] ty = "Measurement Data" -> "NotImplControl"
          [] ty = "Classic DAQmx Physical Channel" -> "String"
          [] ty = "VISA resource name" -> "VISAResourceName"
          [] ty = "Classic Shared Variable Control" -> "SharedVariable"
          [] ty = "User Defined Refnum Tag" -> "UDRefNum"
          [] ty = "Waveform Graph" -> "WaveformGraph"
          [] ty \in {"XY Graph", "Waveform Chart"} -> "Array"
          [] ty = "Tab Control" -> "TabControl"
          [] OTHER -> ty]

\* make_control(type=control_type, **kw): LVControl_LU.get(type, NotImplControl)
make_control(control_type, kw) ==
    Construct(IF control_type \in DOMAIN LVControl_LU THEN LVControl_LU[control_type]
              ELSE "NotImplControl", kw)

-----------------------------------------------------------------------------
(* One leaf control and the assignments made to it *)

\* declared types of the leaf controls made: the registry's, and two it lacks
DeclaredTypes == (DOMAIN LVControl_LU \ {"Cluster"}) \cup {"Vendor Widget", ""}

Str_ab == S(<<"a", "b">>)
Str_c == S(<<"c">>)

\* values offered to a leaf's value setter
LeafVals ==
    {F(0), F(2), I(0), I(1), B(TRUE), B(FALSE), None,
     S(<<>>), S(<<"1">>), S(<<" ", "7">>), Str_ab, S(<<"a", "/", "/", "b", "/">>),
     P(<<<<"a">>>>), DT(<<2020, 1, 1, 0>>, "naive"),
     T(<<I(2020), I(2), I(29)>>), T(<<I(2021), I(2), I(29)>>), T(<<I(2020), I(1)>>),
     T(<<F(2), I(1), I(1)>>), T(<<Str_ab, I(0)>>),
     L(<<>>), L(<<I(1), F(2)>>), L(<<I(1), L(<<I(2), I(3)>>)>>),
     L(<<F(0), F(1), L(<<I(1), I(2)>>)>>), L(<<L(<<I(1), I(2)>>), L(<<I(3), I(4)>>)>>),
     L(<<B(TRUE), B(FALSE), L(<<I(1), I(2)>>)>>)}

\* values offered to a WaveformGraph's t0, dt and Y
GraphAttrVals == {F(2), I(2), B(TRUE), L(<<I(1), I(2)>>)}

\* attribute names and values offered to an attribute assignment
AttrItems == {"name", "ID", "tip"}
AttrVals == {Str_ab}

LeafAttrs ==
    {[a \in {"name", "ID"} |-> IF a = "name" THEN Str_c ELSE I(83)],
     [a \in {"name", "ID", "tip", "pages"} |-> IF a = "ID" THEN I(83) ELSE Str_c]}

LeafKwargs ==
    [attrs : LeafAttrs,
     value : {Unset, F(2), B(TRUE), Str_ab},
     items : {None, <<Str_ab, Str_c>>}]

\* no VI is open: there is no LabVIEW side
NoRemote == <<>>

Snapshot == [ctrls |-> ctrls, obj |-> obj, cattrs |-> cattrs]

\* no call outstanding: the caller is free to make the next one
Idle == [op |-> "idle", item |-> "", arg |-> None, err |-> "none"]

\* the caller makes its next call only once the last one has ended
Ready == last.op = "idle"

\* the caller takes the outcome of the call (its return or its exception)
Return ==
    /\ last.op # "idle"
    /\ last' = Idle
    /\ pre' = Snapshot
    /\ UNCHANGED <<ctrls, obj, cattrs, remote>>

\* the control is made by make_control from a declared type, or is an
\* IORefNum constructed directly (the registry holds only its subclasses)
InitLeaf ==
    /\ \/ \E ty \in DeclaredTypes, kw \in LeafKwargs :
             /\ kw.items # None => ty = "Ring"
             /\ make_control(ty, kw).err = "none"
             /\ obj = [i \in {1} |-> make_control(ty, kw).c]
             /\ last = [op |-> "make_control", item |-> ty, arg |-> None,
                        err |-> "none"]
       \/ \E kw \in LeafKwargs :
             /\ kw.items = None
             /\ obj = [i \in {1} |-> Construct("IORefNum", kw).c]
             /\ last = Idle
    /\ ctrls = <<>>
    /\ cattrs = <<>>
    /\ pre = Snapshot
    /\ remote = NoRemote

\* the call op(item, arg) on the control ends with outcome r
LeafApply(r, op, item, arg) ==
    /\ obj' = [obj EXCEPT ![1] = r.c]
    /\ last' = [op |-> op, item |-> item, arg |-> arg, err |-> r.err]
    /\ pre' = Snapshot
    /\ UNCHANGED <<ctrls, cattrs, remote>>

\* ctrl.value = v
LeafSetValue(v) == LeafApply(SetValue(obj[1], v), "set_value", "value", v)

\* ctrl.<item> = v for a read-only attribute name
LeafSetAttr(item, v) == LeafApply(SetReadonly(obj[1], item, v), "set_attr", item, v)

\* graph.t0 = v, graph.dt = v, graph.Y = v
LeafSetGraphAttr(item, v) ==
    /\ obj[1].cls = "WaveformGraph"
    /\ LeafApply(WaveformGraphSetattr(obj[1], item, v), "set_attr", item, v)

NextLeaf ==
    \/ Ready /\ \E v \in LeafVals : LeafSetValue(v)
    \/ Ready /\ \E item \in AttrItems, v \in AttrVals : LeafSetAttr(item, v)
    \/ Ready /\ \E item \in {"t0", "dt", "Y"}, v \in GraphAttrVals :
                   LeafSetGraphAttr(item, v)
    \/ Return

SpecLeaf == InitLeaf /\ [][NextLeaf]_vars

-----------------------------------------------------------------------------
(* Cluster: the dict _ctrls as a sequence of [key, ctl] entries *)

Name(k) == <<"name", k>>

Keys(cs) == [i \in 1..Len(cs) |-> cs[i].key]
KeySet(cs) == {cs[i].key : i \in 1..Len(cs)}
HasKey(cs, k) == k \in KeySet(cs)
\* cs[k]
DictGet(cs, k) == cs[CHOOSE i \in 1..Len(cs) : cs[i].key = k].ctl
\* cs[k] = ctl: a present key keeps its position, a new key goes last
DictSet(cs, k, ctl) ==
    IF HasKey(cs, k)
    THEN [i \in 1..Len(cs) |-> IF cs[i].key = k THEN [key |-> k, ctl |-> ctl] ELSE cs[i]]
    ELSE Append(cs, [key |-> k, ctl |-> ctl])

Ok(st) == [st |-> st, err |-> "none"]
Fail(st, e) == [st |-> st, err |-> e]

\* the heap after control id's setter ran with outcome r
Stored(st, id, r) == [st |-> [st EXCEPT !.obj[id] = r.c], err |-> r.err]

\* self._ctrls[name].value = v
ChildSet(st, name, v) ==
    IF ~HasKey(st.ctrls, name) THEN Fail(st, "KeyError")
    ELSE Stored(st, DictGet(st.ctrls, name), SetValue(st.obj[DictGet(st.ctrls, name)], v))

RECURSIVE UpdateFrom(_, _, _)
RECURSIVE UpdateNext(_, _, _)

\* Cluster.update, from the i-th key of the mapping on
UpdateFrom(st, controls, i) ==
    IF i > Len(controls) THEN Ok(st)
    ELSE UpdateNext(ChildSet(st, controls[i][1], controls[i][2]), controls, i)

\* an exception of the i-th assignment ends the loop
UpdateNext(r, controls, i) ==
    IF r.err # "none" THEN r ELSE UpdateFrom(r.st, controls, i + 1)

RECURSIVE PositionalFrom(_, _, _)

\* an update that pairs the mapping's values with the members by position
update_ByPosition(st, controls) ==
    PositionalFrom(st, [i \in 1..Len(controls) |-> controls[i][2]], 1)

\* Cluster.update: controls is the mapping's items in key order
update(st, controls) == UpdateFrom(st, controls, 1)

RECURSIVE ReorderFrom(_, _, _, _)
\* the loop of reorder_controls: copy holds the old dict, st.ctrls the new one
ReorderFrom(st, copy, new_order, i) ==
    IF i > Len(new_order) THEN Ok(st)
    ELSE IF ~HasKey(copy, new_order[i]) THEN Fail(st, "KeyError")
    ELSE ReorderFrom(
            [st EXCEPT !.ctrls = DictSet(st.ctrls, new_order[i], DictGet(copy, new_order[i]))],
            copy, new_order, i + 1)

\* a reorder that renames the entries in place and moves no control
reorder_controls_KeysOnly(st, new_order) ==
    IF \E i \in 1..Len(new_order) : ~HasKey(st.ctrls, new_order[i])
    THEN Fail([st EXCEPT !.ctrls = <<>>], "KeyError")
    ELSE Ok([st EXCEPT !.ctrls =
                [i \in 1..Len(new_order) |->
                    [key |-> new_order[i],
                     ctl |-> st.ctrls[IF i <= Len(st.ctrls) THEN i ELSE 1].ctl]]])

\* Cluster.reorder_controls
reorder_controls(st, new_order) ==
    ReorderFrom([st EXCEPT !.ctrls = <<>>], st.ctrls, new_order, 1)

RECURSIVE PositionalNext(_, _, _)
RECURSIVE PositionalFrom_Declared(_, _, _)

\* a positional loop over the members in the order they were declared in
PositionalFrom_Declared(st, values, i) ==
    IF i > Len(st.ctrls) \/ i > Len(values) THEN Ok(st)
    ELSE IF Stored(st, i, SetValue(st.obj[i], values[i])).err # "none"
    THEN Stored(st, i, SetValue(st.obj[i], values[i]))
    ELSE PositionalFrom_Declared(Stored(st, i, SetValue(st.obj[i], values[i])).st,
                                 values, i + 1)

\* for c, v in zip(self._ctrls, new_value): self._ctrls[c].value = v
PositionalFrom(st, values, i) ==
    IF i > Len(st.ctrls) \/ i > Len(values) THEN Ok(st)
    ELSE PositionalNext(ChildSet(st, st.ctrls[i].key, values[i]), values, i)

\* an exception of the i-th assignment ends the loop
PositionalNext(r, values, i) ==
    IF r.err # "none" THEN r ELSE PositionalFrom(r.st, values, i + 1)

ERROR_ORDER == <<"status", "code", "source">>

\* a trigger that takes every three-member cluster for the error cluster
IsErrorLayout_AnyThree(cs) == Len(cs) = 3

\* set(self._ctrls) == {"status", "code", "source"}
IsErrorLayout(cs) == KeySet(cs) = {"status", "code", "source"}

\* the second try, re being the outcome of reorder_controls: its AutoLVError
\* is raised again as AutoLVError, any other exception passes through
SecondTry(re, new_value) ==
    IF re.err # "none" THEN re ELSE PositionalFrom(re.st, new_value[2], 1)

\* `except AutoLVError:` after the first try, whose outcome is first
ExceptAutoLVError(first, new_value) ==
    IF first.err # "AutoLVError" THEN first
    ELSE IF ~IsErrorLayout(first.st.ctrls) THEN Ok(first.st)
    ELSE SecondTry(reorder_controls(first.st, ERROR_ORDER), new_value)

\* the setter of Cluster.value
ClusterValueSet(st, new_value) ==
    IF IsDict(new_value) THEN update(st, new_value[2])
    ELSE IF new_value = None THEN Ok(st)
    ELSE IF ~HasIter(new_value) THEN Fail(st, "TypeError")
    ELSE ExceptAutoLVError(PositionalFrom(st, new_value[2], 1), new_value)

\* Cluster.__getitem__(control) for an int (0-based) or a key: [err, ctl]
ClusterGetItem(st, control) ==
    IF IsInt(control)
    THEN IF IntOf(control) < 0 - Len(st.ctrls) \/ IntOf(control) >= Len(st.ctrls)
         THEN [err |-> "IndexError", ctl |-> 0]
         ELSE [err |-> "none",
               ctl |-> st.ctrls[IF IntOf(control) < 0
                                THEN Len(st.ctrls) + IntOf(control) + 1
                                ELSE IntOf(control) + 1].ctl]
    ELSE IF ~HasKey(st.ctrls, control[2]) THEN [err |-> "KeyError", ctl |-> 0]
    ELSE [err |-> "none", ctl |-> DictGet(st.ctrls, control[2])]

\* what the class Cluster itself defines: found before __getattr__ is tried
ClusterClassAttrs ==
    {"value", "supported", "index", "update", "reorder_controls", "as_dict",
     "set_dataflow"}

\* c.<item> read: [err, ctl]; the instance's and the class's attributes are
\* found first (ctl = 0: what is returned is no member), then
\* Cluster.__getattr__ looks among the members
ClusterGetattr(st, item) ==
    IF item \in DOMAIN st.cattrs \/ item \in ClusterClassAttrs
    THEN [err |-> "none", ctl |-> 0]
    ELSE IF HasKey(st.ctrls, item) THEN [err |-> "none", ctl |-> DictGet(st.ctrls, item)]
    ELSE [err |-> "AttributeError", ctl |-> 0]

\* Cluster.index(control): [err, idx], idx 0-based
ClusterIndex(st, control) ==
    IF HasKey(st.ctrls, control)
    THEN [err |-> "none",
          idx |-> (CHOOSE i \in 1..Len(st.ctrls) : st.ctrls[i].key = control) - 1]
    ELSE [err |-> "ValueError", idx |-> 0]

\* Cluster.value
ClusterValue(st) ==
    T([i \in 1..Len(st.ctrls) |-> GetValue(st.obj[st.ctrls[i].ctl])])

\* Cluster.__setattr__, falling back on LV_Control.__setattr__
ClusterSetattr(st, item, value) ==
    IF HasKey(st.ctrls, item) THEN ChildSet(st, item, value)
    ELSE IF item \in DOMAIN st.cattrs /\ item \in READONLY_ATTRIBUTES
         THEN Fail(st, "AutoLVError")
    ELSE IF item = "value" THEN ClusterValueSet(st, value)
    ELSE IF item \in READONLY_ATTRIBUTES
         THEN Ok([st EXCEPT !.cattrs = [a \in DOMAIN st.cattrs \cup {item} |->
                                           IF a = item THEN value ELSE st.cattrs[a]]])
    \* any other name becomes a plain instance attribute, which is not modelled
    ELSE Ok(st)

-----------------------------------------------------------------------------
(* One Cluster and the operations on it *)

MaxSeqLen == 3
MaxMapLen == 2

\* the members of the clusters built: <<key, class, `value` keyword>>
Layouts ==
    {<< <<"x", "Numeric", Unset>>, <<"y", "Boolean", Unset>> >>,
     << <<"a", "Numeric", I(1)>>, <<"b", "Numeric", I(2)>>, <<"c", "Numeric", I(3)>> >>,
     << <<"code", "Numeric", Unset>>, <<"status", "Boolean", Unset>>,
        <<"source", "String", Unset>> >>,
     << <<"name", "String", Unset>>, <<"x", "Numeric", Unset>> >>}

\* make_control(**attrs) for one member
MakeMember(m, id) ==
    Construct(m[2], [attrs |-> [a \in {"name", "ID"} |->
                                   IF a = "name" THEN Name(m[1]) ELSE I(80 + id)],
                     value |-> m[3], items |-> None]).c

\* Cluster.__init__
InitCluster ==
    /\ \E lay \in Layouts :
          /\ ctrls = [i \in 1..Len(lay) |-> [key |-> lay[i][1], ctl |-> i]]
          /\ obj = [i \in 1..Len(lay) |-> MakeMember(lay[i], i)]
    /\ cattrs = [a \in {"name", "ID", "type"} |->
                    IF a = "ID" THEN I(80)
                    ELSE IF a = "name" THEN Name("input") ELSE Name("Cluster")]
    /\ last = Idle
    /\ pre = [ctrls |-> ctrls, obj |-> obj, cattrs |-> cattrs]
    /\ remote = NoRemote

\* the names callers use: those of the controls built, and one that is none's
MemberNames == {obj[i].attrs.name[2] : i \in DOMAIN obj}
CallerNames == MemberNames \cup {"zz"}

SeqVals == {B(TRUE), F(2), Str_ab}
MapVals == {F(2), B(TRUE)}

SeqsOver(X, n) == UNION {[1..k -> X] : k \in 0..n}
Distinct(s) == \A i, j \in 1..Len(s) : i # j => s[i] # s[j]

\* mappings, as their items in key order
Mappings ==
    {m \in SeqsOver(CallerNames \X MapVals, MaxMapLen) :
        Distinct([i \in 1..Len(m) |-> m[i][1]])}

\* the call op(item, arg) on the cluster ends with outcome r
Apply(r, op, item, arg) ==
    /\ ctrls' = r.st.ctrls
    /\ obj' = r.st.obj
    /\ cattrs' = r.st.cattrs
    /\ last' = [op |-> op, item |-> item, arg |-> arg, err |-> r.err]
    /\ pre' = Snapshot
    /\ UNCHANGED remote

Dict(m) == <<"dict", m>>

\* c.value = {...}
AssignMapping(m) ==
    Apply(ClusterSetattr(Snapshot, "value", Dict(m)), "setattr", "value", Dict(m))

\* c.value = (...)
AssignSequence(s) ==
    Apply(ClusterSetattr(Snapshot, "value", T(s)), "setattr", "value", T(s))

\* c.value = None
AssignNone == Apply(ClusterSetattr(Snapshot, "value", None), "setattr", "value", None)

\* c.update({...})
Update(m) == Apply(update(Snapshot, m), "update", "", Dict(m))

\* c.reorder_controls([...])
ReorderControls(p) == Apply(reorder_controls(Snapshot, p), "reorder_controls", "", p)

\* c.<item> = v for a member name or a read-only attribute name
SetAttr(item, v) == Apply(ClusterSetattr(Snapshot, item, v), "setattr", item, v)

Next ==
    \/ Ready /\ \E m \in Mappings : AssignMapping(m)
    \/ Ready /\ \E s \in SeqsOver(SeqVals, MaxSeqLen) : AssignSequence(s)
    \/ Ready /\ AssignNone
    \/ Ready /\ \E m \in Mappings : Update(m)
    \/ Ready /\ \E p \in SeqsOver(CallerNames, MaxSeqLen) : ReorderControls(p)
    \/ Ready /\ \E item \in MemberNames, v \in SeqVals : SetAttr(item, v)
    \/ Ready /\ \E item \in AttrItems, v \in AttrVals : SetAttr(item, v)
    \/ Return

Spec == InitCluster /\ [][Next]_vars

-----------------------------------------------------------------------------
(* Claims about leaf controls (SpecLeaf) *)

Leaf == obj[1]
LeafBefore == pre.obj[1]

C7Variants ==
    {"Numeric", "Boolean", "String", "Path", "TimeStamp", "Enum", "Array"}
        \cup IORefNumFamily

\* what a read returns for an accepted input v, by the listed normalizations:
\* Path as its string form, an Enum numeric string as the integer, an IORefNum
\* bare string s as (s, 0), an Array iterable as a numeric array
ListedNormal(cls, v) ==
    CASE cls = "Path" -> PathStr(PathOf(v))
      [] cls = "Enum" /\ IsStr(v) -> I(ParseInt(v[2]).n)
      [] cls \in IORefNumFamily /\ IsStr(v) -> T(<<v, I(0)>>)
      [] cls = "Array" -> NpArray(v)
      [] OTHER -> v

\* the same, and a TimeStamp tuple as the date-time it denotes
AmendedNormal(cls, v) ==
    IF cls = "TimeStamp" /\ IsTuple(v) THEN DatetimeOf(v).v ELSE ListedNormal(cls, v)

ValidatingClasses ==
    {"Numeric", "Boolean", "String", "Path", "TimeStamp", "Enum", "Array", "Ring",
     "WaveformGraph"} \cup IORefNumFamily

\* the shapes each variant accepts
Accepts(c, v) ==
    CASE c.cls = "Numeric" -> IsNumber(v)
      [] c.cls = "Boolean" -> IsBool(v)
      [] c.cls = "String" -> IsStr(v)
      [] c.cls = "Path" -> IsStr(v) \/ IsPath(v)
      [] c.cls = "TimeStamp" ->
            IsDatetime(v) \/ (IsTuple(v) /\ DatetimeOf(v).err = "none")
      [] c.cls = "Enum" -> IsInt(v) \/ (IsStr(v) /\ ParseInt(v[2]).ok)
      [] c.cls \in IORefNumFamily -> IsStr(v) \/ IsTuple(v)
      [] c.cls = "Ring" ->
            \/ IsInt(v)
            \/ IsStr(v) /\ c.items # None /\ \E i \in 1..Len(c.items) : c.items[i] = v
      [] c.cls = "Array" -> HasIter(v) /\ ~IsStr(v)
      [] c.cls = "WaveformGraph" ->
            HasIter(v) /\ ~IsStr(v) /\ (is_ragged(v, FALSE) => Len(v[2]) >= 3)

\* C8: a value outside the shapes a variant's setter accepts is answered with
\* AutoLVError, never with another error kind and never by storing it.
C8_RejectedIsAutoLVError ==
    (last.op = "set_value" /\ Leaf.cls \in ValidatingClasses
        /\ ~Accepts(LeafBefore, last.arg)) => last.err = "AutoLVError"

\* C9: a Boolean holds a bool in every state, and assigning a non-bool (the
\* integers 1 and 0 included) raises AutoLVError and leaves the value unchanged.
C9_BooleanStrict ==
    Leaf.cls = "Boolean" =>
        /\ IsBool(Leaf.value)
        /\ (last.op = "set_value" /\ ~IsBool(last.arg)) =>
              last.err = "AutoLVError" /\ Leaf.value = LeafBefore.value

C9_Witness ==
    /\ Leaf.cls = "Boolean" /\ last.op = "set_value" /\ last.arg = I(1)
    /\ last.err = "AutoLVError" /\ Leaf.value = LeafBefore.value

-----------------------------------------------------------------------------
(* Claims about a Cluster (Spec) *)

IsValueAssign == last.op = "setattr" /\ last.item = "value"
IsMappingAssign == last.op = "update" \/ (IsValueAssign /\ IsDict(last.arg))
IsSeqAssign == IsValueAssign /\ IsTuple(last.arg)

MemberAt(st, i) == st.obj[st.ctrls[i].ctl]
Member(st, k) == st.obj[DictGet(st.ctrls, k)]
Min(a, b) == IF a < b THEN a ELSE b

\* the mapping assigned, as a function of its keys
MapKeys == {last.arg[2][i][1] : i \in 1..Len(last.arg[2])}
MapVal(k) == last.arg[2][CHOOSE i \in 1..Len(last.arg[2]) : last.arg[2][i][1] = k][2]
MapAllKnown == \A k \in MapKeys : HasKey(pre.ctrls, k)
MapAllAccepted ==
    \A k \in MapKeys : HasKey(pre.ctrls, k) => Accepts(Member(pre, k), MapVal(k))

\* C1: a mapping assigned through `value` or `update`, its keys all member
\* names and its values accepted, sets exactly the named members, each through
\* its own setter, whatever the order of the keys; the other members and the
\* member order are unchanged, and the whole value read next is the members'
\* values in member order.  With a key that is no member name (the values for
\* the member names being accepted) the assignment raises KeyError.
C1_MappingAssign ==
    IsMappingAssign =>
        /\ (MapAllKnown /\ MapAllAccepted) =>
              /\ last.err = "none"
              /\ ctrls = pre.ctrls
              /\ \A i \in 1..Len(ctrls) :
                    obj[ctrls[i].ctl] =
                        IF ctrls[i].key \in MapKeys
                        THEN SetValue(pre.obj[ctrls[i].ctl], MapVal(ctrls[i].key)).c
                        ELSE pre.obj[ctrls[i].ctl]
              /\ ClusterValue(Snapshot) =
                    T([i \in 1..Len(ctrls) |->
                          IF ctrls[i].key \in MapKeys THEN MapVal(ctrls[i].key)
                          ELSE GetValue(MemberAt(pre, i))])
        /\ (~MapAllKnown /\ MapAllAccepted) => last.err = "KeyError"

C1_Witness ==
    /\ IsValueAssign
    /\ Keys(pre.ctrls) = <<"x", "y">>
    /\ last.arg = Dict(<< <<"y", B(TRUE)>>, <<"x", F(2)>> >>)
    /\ last.err = "none"
    /\ ClusterValue(Snapshot) = T(<<F(2), B(TRUE)>>)

SeqAssigned == last.arg[2]

\* C2: a sequence assigned to `value`, as long as the cluster and each element
\* accepted by the member at its position, sets the i-th member of the current
\* order to the i-th element, and the whole value read next is that sequence.
C2_PositionalAssign ==
    (/\ IsSeqAssign
     /\ Len(SeqAssigned) = Len(pre.ctrls)
     /\ \A i \in 1..Len(pre.ctrls) : Accepts(MemberAt(pre, i), SeqAssigned[i])) =>
        /\ last.err = "none"
        /\ ctrls = pre.ctrls
        /\ \A i \in 1..Len(ctrls) : GetValue(MemberAt(Snapshot, i)) = SeqAssigned[i]
        /\ ClusterValue(Snapshot) = T(SeqAssigned)

C2_Witness ==
    /\ IsSeqAssign
    /\ Keys(pre.ctrls) = <<"y", "x">>
    /\ ClusterValue(pre) = T(<<B(FALSE), F(0)>>)
    /\ SeqAssigned = <<B(TRUE), F(2)>>
    /\ last.err = "none"
    /\ ClusterValue(Snapshot) = T(<<B(TRUE), F(2)>>)

\* p is a permutation of the keys of cs
IsPermutation(p, cs) ==
    Len(p) = Len(cs) /\ {p[i] : i \in 1..Len(p)} = KeySet(cs)

\* C3: after reorder_controls(p), p a permutation of the member names, the
\* member order is p, c[i] is the member named p[i], and every member is the
\* control it was, holding the value it held.
C3_Reorder ==
    (last.op = "reorder_controls" /\ IsPermutation(last.arg, pre.ctrls)) =>
        /\ last.err = "none"
        /\ Keys(ctrls) = last.arg
        /\ \A i \in 1..Len(ctrls) :
              /\ ClusterGetItem(Snapshot, I(i - 1)).err = "none"
              /\ ClusterGetItem(Snapshot, I(i - 1)).ctl = DictGet(pre.ctrls, last.arg[i])
              /\ obj[ClusterGetItem(Snapshot, I(i - 1)).ctl].attrs.name = Name(last.arg[i])
        /\ obj = pre.obj

C3_Witness ==
    /\ last.op = "reorder_controls"
    /\ Keys(pre.ctrls) = <<"a", "b", "c">>
    /\ ClusterValue(pre) = T(<<I(1), I(2), I(3)>>)
    /\ last.arg = <<"c", "a", "b">>
    /\ Keys(ctrls) = <<"c", "a", "b">>
    /\ ClusterValue(Snapshot) = T(<<I(3), I(1), I(2)>>)

\* C4: reorder_controls raises for every argument that is not a permutation of
\* the member names, one that leaves a member out included.
C4_NonPermutationRaises ==
    (last.op = "reorder_controls" /\ ~IsPermutation(last.arg, pre.ctrls)) =>
        last.err # "none"

\* some element of the sequence is rejected by the member at its position
SomeRejected ==
    \E i \in 1..Min(Len(pre.ctrls), Len(SeqAssigned)) :
        ~Accepts(MemberAt(pre, i), SeqAssigned[i])

\* C5: a sequence assigned to a cluster whose member names are not exactly
\* status, code and source, one element of which its member rejects, raises
\* AutoLVError.
C5_RejectionRaises ==
    (IsSeqAssign /\ ~IsErrorLayout(pre.ctrls) /\ SomeRejected) =>
        last.err = "AutoLVError"

\* every element is accepted by the member at its position in ERROR_ORDER
RetryAccepted ==
    \A i \in 1..Min(Len(ERROR_ORDER), Len(SeqAssigned)) :
        Accepts(Member(pre, ERROR_ORDER[i]), SeqAssigned[i])

\* C6: a positional assignment that fails validation on a cluster whose member
\* names are exactly status, code and source reorders it to [status, code,
\* source] and tries once more: the members then hold the sequence's values in
\* that order, or AutoLVError is raised.  On a cluster with other member names
\* no value assignment changes the member order.
C6_ErrorLayoutRetry ==
    /\ (IsSeqAssign /\ IsErrorLayout(pre.ctrls) /\ SomeRejected) =>
          /\ Keys(ctrls) = ERROR_ORDER
          /\ \A i \in 1..Len(ctrls) : ctrls[i].ctl = DictGet(pre.ctrls, ERROR_ORDER[i])
          /\ RetryAccepted =>
                /\ last.err = "none"
                /\ \A i \in 1..Min(Len(ERROR_ORDER), Len(SeqAssigned)) :
                      GetValue(MemberAt(Snapshot, i)) = SeqAssigned[i]
          /\ ~RetryAccepted => last.err = "AutoLVError"
    /\ (last.op \in {"update", "setattr"} /\ ~IsErrorLayout(pre.ctrls)) =>
          ctrls = pre.ctrls

C6_Witness ==
    /\ IsSeqAssign
    /\ Keys(pre.ctrls) = <<"code", "status", "source">>
    /\ SeqAssigned = <<B(TRUE), F(2), Str_ab>>
    /\ last.err = "none"
    /\ Keys(ctrls) = ERROR_ORDER
    /\ ClusterValue(Snapshot) = T(<<B(TRUE), F(2), Str_ab>>)

\* C10: assigning a read-only attribute that construction populated raises
\* AutoLVError and leaves the attribute as it was.
C10_ReadonlyRaises ==
    (last.op = "setattr" /\ last.item \in READONLY_ATTRIBUTES
        /\ last.item \in {"name", "ID", "type"}) =>
        last.err = "AutoLVError" /\ cattrs = pre.cattrs

\* C18: for every member name n at position i of the current order, c[i],
\* c[n] and c.n give the same child and c.index(n) is i; an unknown name and
\* an out-of-range position are errors; an assignment c.n = v sets that
\* child's value through the child's setter and the children stay the same.
C18_ClusterAccess ==
    /\ \A i \in 1..Len(ctrls) :
          /\ ClusterGetItem(Snapshot, I(i - 1)) = [err |-> "none", ctl |-> ctrls[i].ctl]
          /\ ClusterGetItem(Snapshot, S(ctrls[i].key)) = [err |-> "none", ctl |-> ctrls[i].ctl]
          /\ ClusterGetattr(Snapshot, ctrls[i].key) = [err |-> "none", ctl |-> ctrls[i].ctl]
          /\ ClusterIndex(Snapshot, ctrls[i].key) = [err |-> "none", idx |-> i - 1]
    /\ ClusterGetItem(Snapshot, S("zz")).err # "none"
    /\ ClusterGetItem(Snapshot, I(Len(ctrls))).err # "none"
    /\ ClusterGetattr(Snapshot, "zz").err # "none"
    /\ ClusterIndex(Snapshot, "zz").err # "none"
    /\ (last.op = "setattr" /\ HasKey(pre.ctrls, last.item)) =>
          /\ ctrls = pre.ctrls
          /\ last.err = SetValue(Member(pre, last.item), last.arg).err
          /\ \A id \in DOMAIN obj :
                obj[id] = IF id = DictGet(pre.ctrls, last.item)
                          THEN SetValue(pre.obj[id], last.arg).c
                          ELSE pre.obj[id]

-----------------------------------------------------------------------------
(* Further claims about leaf controls (SpecLeaf) *)

\* C11: make_control given a declared type absent from the registry makes an
\* unsupported control whose value is None, without raising; and whatever is
\* assigned to an unsupported control, the assignment does not raise and the
\* value stays None.
C11_UnsupportedControl ==
    /\ (last.op = "make_control" /\ last.item \notin DOMAIN LVControl_LU) =>
          /\ last.err = "none"
          /\ Leaf.cls = "NotImplControl"
          /\ ~Supported(Leaf)
          /\ GetValue(Leaf) = None
    /\ ~Supported(Leaf) =>
          /\ GetValue(Leaf) = None
          /\ last.op = "set_value" => last.err = "none"

C11_Witness ==
    /\ ~Supported(Leaf)
    /\ ~Supported(LeafBefore)
    /\ last.op = "set_value"
    /\ last.arg = F(2)
    /\ last.err = "none"
    /\ GetValue(Leaf) = None

\* C12: whatever is assigned to an ArrayCluster's value, the assignment
\* raises NotImplementedError and the control is as it was.
C12_ArrayClusterReadOnly ==
    (last.op = "set_value" /\ LeafBefore.cls = "ArrayCluster") =>
        /\ last.err = "NotImplementedError"
        /\ Leaf = LeafBefore

C12_Witness ==
    /\ last.op = "set_value"
    /\ LeafBefore.cls = "ArrayCluster"
    /\ last.arg = L(<<I(1), F(2)>>)
    /\ last.err = "NotImplementedError"
    /\ GetValue(Leaf) = L(<<>>)

\* a value WaveformGraph's setter takes: an iterable that is no string
GraphLike(v) == ~IsStr(v) /\ HasIter(v)

C16_RingIndex ==
    (last.op = "set_value" /\ LeafBefore.cls = "Ring" /\ LeafBefore.items # None
        /\ last.err = "none") =>
        /\ IsInt(GetValue(Leaf))
        /\ 0 <= IntOf(GetValue(Leaf))
        /\ IntOf(GetValue(Leaf)) < Len(Leaf.items)
        /\ IsStr(last.arg) => GetValue(Leaf) = I(ListIndex(Leaf.items, last.arg))
        /\ Leaf.items = LeafBefore.items

-----------------------------------------------------------------------------
(* is_ragged applied to nested sequences of numbers *)

MaxSize == 7

\* the number of numbers and sequences a nested sequence is made of
RECURSIVE Size(_)
RECURSIVE SizeFrom(_, _)
SizeFrom(s, i) == IF i > Len(s) THEN 0 ELSE Size(s[i]) + SizeFrom(s, i + 1)
Size(v) == IF Kind(v) = "list" THEN 1 + SizeFrom(v[2], 1) ELSE 1

\* the nested sequences of at most n parts, and the sequences of such whose
\* parts number at most n together
RECURSIVE NestedUpTo(_)
RECURSIVE ForestsUpTo(_)
NestedUpTo(n) ==
    IF n <= 0 THEN {} ELSE {I(1)} \cup {L(f) : f \in ForestsUpTo(n - 1)}
ForestsUpTo(n) ==
    {<<>>} \cup UNION {{<<t>> \o f : f \in ForestsUpTo(n - Size(t))} : t \in NestedUpTo(n)}

\* the arrays of test_isragged
RaggedExamples ==
    {L(<<I(1), I(2), I(3)>>),
     L(<<L(<<I(1), I(2)>>), L(<<I(3), I(4)>>)>>),
     L(<<I(1), I(2), L(<<I(3), I(4)>>)>>),
     L(<<L(<<L(<<I(1), I(2)>>), L(<<I(3), I(4)>>)>>),
         L(<<L(<<I(1), I(2)>>), L(<<I(3), I(4), I(5)>>)>>)>>)}

RaggedInputs == NestedUpTo(MaxSize) \cup RaggedExamples

InitRagged ==
    /\ ctrls = <<>>
    /\ obj = <<>>
    /\ cattrs = <<>>
    /\ remote = NoRemote
    /\ last = Idle
    /\ pre = Snapshot

\* is_ragged(a, False) is called and returns
IsRaggedCall(a) ==
    /\ last' = [op |-> "is_ragged", item |-> "", arg |-> a, err |-> "none",
                ret |-> B(is_ragged(a, FALSE))]
    /\ pre' = Snapshot
    /\ UNCHANGED <<ctrls, obj, cattrs, remote>>

NextRagged ==
    \/ Ready /\ \E a \in RaggedInputs : IsRaggedCall(a)
    \/ Return

SpecRagged == InitRagged /\ [][NextRagged]_vars

\* somewhere inside a there is a sequence two of whose direct elements differ
\* in length, an element that is no sequence having the length -1
RECURSIVE HasUnevenLevel(_)
HasUnevenLevel(a) ==
    /\ Kind(a) = "list"
    /\ \/ \E i, j \in 1..Len(a[2]) : PyLen(a[2][i]) # PyLen(a[2][j])
       \/ \E i \in 1..Len(a[2]) : HasUnevenLevel(a[2][i])

\* C15: is_ragged(a, False) returns, and returns true exactly when somewhere
\* inside a there is a sequence two of whose direct elements differ in length;
\* of the four documented arrays the first two are not ragged, the last two are.
C15_IsRagged ==
    last.op = "is_ragged" =>
        /\ last.err = "none"
        /\ last.ret = B(HasUnevenLevel(last.arg))
        /\ last.arg \in {L(<<I(1), I(2), I(3)>>),
                         L(<<L(<<I(1), I(2)>>), L(<<I(3), I(4)>>)>>)} =>
              last.ret = B(FALSE)
        /\ last.arg \in RaggedExamples \ {L(<<I(1), I(2), I(3)>>),
                         L(<<L(<<I(1), I(2)>>), L(<<I(3), I(4)>>)>>)} =>
              last.ret = B(TRUE)

C15_Witness ==
    /\ last.op = "is_ragged"
    /\ last.arg = L(<<L(<<I(1), L(<<>>)>>)>>)
    /\ last.ret = B(TRUE)

-----------------------------------------------------------------------------
(* VI: the session layer (src/autolv/interface.py).  A VI state is          *)
(* [ctrls, obj, panel]: VI._ctrls, the controls, and the remote front panel *)

\* datetime.replace(tzinfo=...)
ReplaceTzinfo(v, tz) == DT(v[2], tz)

\* a Cluster object held as a value
ClusterObj(st) == <<"Cluster", st>>

\* Cluster(**attrs) for the element layout an ArrayCluster retains
NewCluster(lay) ==
    [ctrls |-> [i \in 1..Len(lay) |-> [key |-> lay[i][1], ctl |-> i]],
     obj |-> [i \in 1..Len(lay) |-> MakeMember(lay[i], i)],
     cattrs |-> [a \in {"name", "ID", "type"} |->
                    IF a = "ID" THEN I(83)
                    ELSE IF a = "name" THEN Name("cluster") ELSE Name("Cluster")]]

\* dict(zip(clstrvalue._ctrls, value))
ZipDict(cs, value) ==
    [i \in 1..Min(Len(cs), Len(value[2])) |-> <<cs[i].key, value[2][i]>>]

\* clstrvalue = Cluster(**ctrl._cluster); clstrvalue.update(dict(zip(...)))
ElementCluster(lay, value) ==
    update(NewCluster(lay), ZipDict(NewCluster(lay).ctrls, value))

\* the list clstrvalues built from rawvalues
ElementClusters(lay, rawvalues) ==
    L([k \in 1..Len(rawvalues[2]) |->
          ClusterObj(ElementCluster(lay, rawvalues[2][k]).st)])

\* the exception that leaves the loop building clstrvalues, if any; VI.__init__
\* passes over AutoLVError there (swallow), read_controls and _run do not
ElementsErr(lay, rawvalues, swallow) ==
    IF \A k \in 1..Len(rawvalues[2]) :
          ElementCluster(lay, rawvalues[2][k]).err \in {"none"} \cup swallow
    THEN "none"
    ELSE ElementCluster(lay, rawvalues[2][
            CHOOSE k \in 1..Len(rawvalues[2]) :
               /\ ElementCluster(lay, rawvalues[2][k]).err \notin {"none"} \cup swallow
               /\ \A j \in 1..(k - 1) :
                    ElementCluster(lay, rawvalues[2][j]).err \in {"none"} \cup swallow]).err

\* the control at position i of VI._ctrls, its name and its remote value
CtrlAt(st, i) == st.obj[st.ctrls[i].ctl]
GetControlValue(st, i) == st.panel[st.ctrls[i].key]

\* what is stored for a value got from the remote: a TimeStamp's loses its tag
Stripped(c, v) == IF c.cls = "TimeStamp" THEN ReplaceTzinfo(v, "naive") ELSE v

\* an outcome with the exceptions in swallow passed over (try/except: pass)
Except(r, swallow) == IF r.err \in swallow THEN Ok(r.st) ELSE r

\* the body of the loops over self._ctrls.values() that get the remote values
\* in VI.__init__ (swallow = {"AutoLVError"}), read_controls and _run
PullOne(st, i, swallow) ==
    IF CtrlAt(st, i).cls = "ArrayCluster"
    THEN IF ElementsErr(CtrlAt(st, i).cluster, GetControlValue(st, i), swallow) # "none"
         THEN Fail(st, ElementsErr(CtrlAt(st, i).cluster, GetControlValue(st, i), swallow))
         ELSE Stored(st, st.ctrls[i].ctl,
                     SetValue(CtrlAt(st, i),
                              ElementClusters(CtrlAt(st, i).cluster,
                                              GetControlValue(st, i))))
    ELSE IF CtrlAt(st, i).cls = "Numeric"
    THEN Stored(st, st.ctrls[i].ctl, SetValue(CtrlAt(st, i), GetControlValue(st, i)))
    ELSE Except(Stored(st, st.ctrls[i].ctl,
                       SetValue(CtrlAt(st, i),
                                Stripped(CtrlAt(st, i), GetControlValue(st, i)))),
                swallow)

RECURSIVE PullFrom(_, _, _)

PullNext(r, i, swallow) ==
    IF r.err # "none" THEN r ELSE PullFrom(r.st, i + 1, swallow)

PullFrom(st, i, swallow) ==
    IF i > Len(st.ctrls) THEN Ok(st) ELSE PullNext(PullOne(st, i, swallow), i, swallow)

\* VI.__init__, after self._ctrls is built: the loop over the controls
VI_init(st) == PullFrom(st, 1, {"AutoLVError"})

\* VI.read_controls
read_controls(st) == PullFrom(st, 1, {})

\* the value VI.run sends for a control: a TimeStamp's is tagged UTC
Tagged(c) ==
    IF c.cls = "TimeStamp" THEN ReplaceTzinfo(GetValue(c), "utc") ELSE GetValue(c)

\* self._vi.SetControlValue(name, value)
SetControlValue(panel, name, value) ==
    [n \in DOMAIN panel |-> IF n = name THEN value ELSE panel[n]]

\* VI.run, first loop: self._vi.SetControlValue(ctrl.name, value) for every
\* control (each one's _dataflow is UNKNOWN: set_dataflow is never called)
RECURSIVE PushFrom(_, _)

PushFrom(st, i) ==
    IF i > Len(st.ctrls) THEN st
    ELSE PushFrom([st EXCEPT !.panel =
                      SetControlValue(st.panel, st.ctrls[i].key, Tagged(CtrlAt(st, i)))],
                  i + 1)

\* VI.run whose _run sees the remote idle with front panel `panel`: the
\* values are pushed, the remote VI runs, the values are pulled
run(st, panel) == PullFrom([PushFrom(st, 1) EXCEPT !.panel = panel], 1, {})

\* VI.__call__, first loop: each named control takes its value
RECURSIVE CallSetFrom(_, _, _)

CallSetNext(r, kwargs, i) ==
    IF r.err # "none" THEN r ELSE CallSetFrom(r.st, kwargs, i + 1)

\* (for an IORefNum only the number it holds is read: nothing is stored)
CallSetFrom(st, kwargs, i) ==
    IF i > Len(kwargs) THEN Ok(st)
    ELSE IF ~HasKey(st.ctrls, kwargs[i][1]) THEN Fail(st, "KeyError")
    ELSE IF st.obj[DictGet(st.ctrls, kwargs[i][1])].cls \in IORefNumFamily
    THEN CallSetFrom(st, kwargs, i + 1)
    ELSE CallSetNext(ChildSet(st, kwargs[i][1], kwargs[i][2]), kwargs, i)

\* VI.__call__, last loop: self._ctrls[ctrl].value = value for what Call gave
RECURSIVE CallStoreFrom(_, _, _)

CallStoreNext(r, returned, i) ==
    IF r.err # "none" THEN r ELSE CallStoreFrom(r.st, returned, i + 1)

CallStoreFrom(st, returned, i) ==
    IF i > Len(returned) THEN Ok(st)
    ELSE CallStoreNext(ChildSet(st, returned[i][1], returned[i][2]), returned, i)

\* the front panel after Call handed back `returned`
PanelAfter(panel, returned) ==
    [n \in DOMAIN panel |->
        IF \E i \in 1..Len(returned) : returned[i][1] = n
        THEN returned[CHOOSE i \in 1..Len(returned) : returned[i][1] = n][2]
        ELSE panel[n]]

CallFinish(r, returned) ==
    IF r.err # "none" THEN r
    ELSE CallStoreFrom([r.st EXCEPT !.panel = PanelAfter(r.st.panel, returned)],
                       returned, 1)

\* VI.__call__(**kwargs), the remote handing back `returned` for the names
call(st, kwargs, returned) == CallFinish(CallSetFrom(st, kwargs, 1), returned)

\* VI.__setattr__(item, value) for a control name
VISetattr(st, item, value) ==
    IF HasKey(st.ctrls, item) THEN ChildSet(st, item, value) ELSE Ok(st)

-----------------------------------------------------------------------------
(* A VI being opened and used *)

MaxCallLen == 1

\* the element cluster of the array-of-clusters control
ElemLayout == << <<"a", "Numeric", Unset>>, <<"b", "Boolean", Unset>> >>

\* the front panels opened: <<name, declared type, element layout>>
VIConfigs ==
    {<< <<"t", "Time Stamp", None>>, <<"n", "Numeric", None>> >>,
     << <<"s", "String", None>>, <<"t", "Time Stamp", None>> >>,
     << <<"array", "ArrayCluster", ElemLayout>>, <<"n", "Numeric", None>> >>}

\* what GetControlValue and Call hand back for a control of class cls; a time
\* stamp comes through pywin32 tagged UTC
RemoteVals(cls) ==
    CASE cls = "TimeStamp" -> {DT(<<2020, 1, 1, 0>>, "utc"), LV_EPOCH}
      [] cls = "Numeric" -> {F(0), F(2)}
      [] cls = "String" -> {S(<<>>), Str_ab}
      [] cls = "ArrayCluster" ->
            {L(<<>>), L(<< T(<<F(1), B(TRUE)>>) >>),
             L(<< T(<<F(1), B(TRUE)>>), T(<<F(2), B(FALSE)>>) >>),
             L(<< T(<<Str_ab, B(TRUE)>>) >>)}

\* make_control(**v) for one entry of parse_vistrings' map
MakeVIControl(d, id) ==
    make_control(d[2], [attrs |-> [a \in {"name", "ID"} |->
                                      IF a = "name" THEN Name(d[1]) ELSE I(80 + id)],
                        value |-> Unset, items |-> None, cluster |-> d[3]]).c

\* the front panels a remote VI with these controls can show
Panels(cs, o) ==
    {p \in [KeySet(cs) -> UNION {RemoteVals(o[i].cls) : i \in DOMAIN o}] :
        \A i \in 1..Len(cs) : p[cs[i].key] \in RemoteVals(o[cs[i].ctl].cls)}

\* VI.__init__ has built self._ctrls; the values are still the defaults
InitVI ==
    /\ \E cfg \in VIConfigs :
          /\ ctrls = [i \in 1..Len(cfg) |-> [key |-> cfg[i][1], ctl |-> i]]
          /\ obj = [i \in 1..Len(cfg) |-> MakeVIControl(cfg[i], i)]
    /\ remote \in Panels(ctrls, obj)
    /\ cattrs = <<>>
    /\ last = [op |-> "make_controls", item |-> "", arg |-> None, err |-> "none"]
    /\ pre = Snapshot

VIState == [ctrls |-> ctrls, obj |-> obj, panel |-> remote]

\* the call op(item, arg) on the VI ends with outcome r
VIApply(r, op, item, arg) ==
    /\ ctrls' = r.st.ctrls
    /\ obj' = r.st.obj
    /\ remote' = r.st.panel
    /\ last' = [op |-> op, item |-> item, arg |-> arg, err |-> r.err]
    /\ pre' = Snapshot
    /\ UNCHANGED cattrs

\* the rest of VI.__init__
Open == last.op = "make_controls" /\ VIApply(VI_init(VIState), "open", "", None)

\* vi.read_controls()
ReadControls == VIApply(read_controls(VIState), "read_controls", "", None)

\* vi.run() that completes
Run(panel) == VIApply(run(VIState, panel), "run", "", None)

\* the keyword arguments of a call and what the remote hands back for them
CallNames == KeySet(ctrls) \cup {"zz"}
CallVals == {F(2), DT(<<2020, 1, 1, 0>>, "naive"), Str_ab}
CallKwargs ==
    {k \in SeqsOver(CallNames \X CallVals, MaxCallLen) :
        Distinct([i \in 1..Len(k) |-> k[i][1]])}
Returned(kwargs) ==
    {r \in [1..Len(kwargs) -> CallNames \X UNION {RemoteVals(obj[i].cls) : i \in DOMAIN obj}] :
        \A i \in 1..Len(kwargs) :
            /\ r[i][1] = kwargs[i][1]
            /\ HasKey(ctrls, r[i][1]) =>
                  r[i][2] \in RemoteVals(obj[DictGet(ctrls, r[i][1])].cls)}

\* vi(**kwargs)
Call(kwargs, returned) ==
    VIApply(call(VIState, kwargs, returned), "call", "", Dict(kwargs))

\* vi.<item> = v
VIAssign(item, v) == VIApply(VISetattr(VIState, item, v), "setattr", item, v)

\* the front panel is edited on the LabVIEW side
RemoteEdit ==
    /\ remote' \in Panels(ctrls, obj)
    /\ UNCHANGED <<ctrls, obj, cattrs, last, pre>>

\* the caller takes the outcome of a call on the VI; there is no VI to call
\* when its __init__ raised
ReturnVI ==
    /\ last.op # "make_controls"
    /\ ~(last.op = "open" /\ last.err # "none")
    /\ Return

NextVI ==
    \/ Open
    \/ Ready /\ ReadControls
    \/ Ready /\ \E panel \in Panels(ctrls, obj) : Run(panel)
    \/ Ready /\ \E kwargs \in CallKwargs : \E returned \in Returned(kwargs) :
                   Call(kwargs, returned)
    \/ Ready /\ \E item \in KeySet(ctrls), v \in CallVals : VIAssign(item, v)
    \/ Ready /\ RemoteEdit
    \/ ReturnVI

SpecVI == InitVI /\ [][NextVI]_vars

-----------------------------------------------------------------------------
(* Claims about a VI (SpecVI) *)

\* the value of an array-of-clusters control holds one Cluster per element of
\* raw, of the retained layout, its members set positionally from the element
HoldsElements(c, raw) ==
    /\ Kind(GetValue(c)) = "list"
    /\ Len(GetValue(c)[2]) = Len(raw[2])
    /\ \A k \in 1..Len(raw[2]) :
          /\ Kind(GetValue(c)[2][k]) = "Cluster"
          /\ Keys(GetValue(c)[2][k][2].ctrls) = [j \in 1..Len(c.cluster) |-> c.cluster[j][1]]
          /\ \A j \in 1..Min(Len(c.cluster), Len(raw[2][k][2])) :
                Accepts(MemberAt(GetValue(c)[2][k][2], j), raw[2][k][2][j]) =>
                    GetValue(MemberAt(GetValue(c)[2][k][2], j)) = raw[2][k][2][j]

\* C13: once a VI with an array-of-clusters control is opened, and after
\* read_controls or a completed run, the call has not raised and the
\* control's value holds one Cluster per element the remote returned, built
\* from the retained layout with its members set positionally.
C13_ArrayOfClusters ==
    \A i \in 1..Len(ctrls) :
        (last.op \in {"open", "read_controls", "run"}
            /\ obj[ctrls[i].ctl].cls = "ArrayCluster") =>
            /\ last.err = "none"
            /\ HoldsElements(obj[ctrls[i].ctl], remote[ctrls[i].key])

\* C17: every TimeStamp control holds a date-time that carries no timezone:
\* right after construction, and after every store made by opening the VI, by
\* read_controls, by a completed run and by a call.
C17_TimeStampNaive ==
    \A id \in DOMAIN obj :
        obj[id].cls = "TimeStamp" =>
            IsDatetime(GetValue(obj[id])) /\ GetValue(obj[id])[3] = "naive"

-----------------------------------------------------------------------------
(* Equality of controls: __eq__ *)

\* operands of ==: a leaf control, a Cluster (ClusterObj), or a plain value
LeafObj(c) == <<"Control", c>>
IsLeafObj(v) == Kind(v) = "Control"
IsClusterObj(v) == Kind(v) = "Cluster"

\* isinstance(other, type(self)) for the classes of two leaf controls: the
\* only subclasses among them are those of IORefNum
IsInstanceOf(ocls, scls) == ocls = scls \/ (scls = "IORefNum" /\ ocls \in IORefNumFamily)

\* a == b for two plain values: numbers compare by what they stand for,
\* sequences of one kind element by element
RECURSIVE PyEq(_, _)
PyEq(a, b) ==
    IF IsNumber(a) /\ IsNumber(b) THEN IntOf(a) = IntOf(b)
    ELSE IF Kind(a) = Kind(b) /\ Kind(a) \in {"tuple", "list"}
    THEN /\ Len(a[2]) = Len(b[2])
         /\ \A i \in 1..Len(a[2]) : PyEq(a[2][i], b[2][i])
    ELSE a = b

\* the order in which LV_Control.__init__ sets the read-only attributes after
\* name (name itself was popped before the loop)
ReadonlyOrder == <<"ID", "type", "description", "tip", "caption", "unitlabel", "pages">>

RECURSIVE PresentFrom(_, _)
PresentFrom(c, i) ==
    IF i > Len(ReadonlyOrder) THEN <<>>
    ELSE (IF ReadonlyOrder[i] \in DOMAIN c.attrs THEN <<c.attrs[ReadonlyOrder[i]]>>
          ELSE <<>>) \o PresentFrom(c, i + 1)

DataFlow_UNKNOWN == <<"DataFlow", "UNKNOWN">>

\* the values of a freshly built control's __dict__, in the order of its keys:
\* name, the read-only attributes given, _dataflow, _supported, _value, and
\* for a Ring its _items
InstanceDict(c) ==
    <<c.attrs.name>> \o PresentFrom(c, 1)
        \o <<DataFlow_UNKNOWN, B(Supported(c)), c.value>>
        \o (IF c.cls = "Ring" THEN <<c.items>> ELSE <<>>)

\* LV_Control.__eq__(self, other): self a leaf control, other any operand
LV_Control_eq(self, other) ==
    IF ~IsLeafObj(other) THEN FALSE
    ELSE IF ~IsInstanceOf(other[2].cls, self.cls) THEN FALSE
    ELSE \A i \in 1..Min(Len(InstanceDict(self)), Len(InstanceDict(other[2]))) :
            PyEq(InstanceDict(self)[i], InstanceDict(other[2])[i])

\* getattr(cluster, key) as an operand
ClusterAttr(st, key) ==
    IF ClusterGetattr(st, key).ctl # 0 THEN LeafObj(st.obj[ClusterGetattr(st, key).ctl])
    ELSE IF key \in DOMAIN st.cattrs THEN st.cattrs[key]
    ELSE <<"method", key>>

\* a == b between two such operands
ObjEq(a, b) ==
    IF IsLeafObj(a) THEN LV_Control_eq(a[2], b)
    \* a plain left operand defers to the control's __eq__, which says False
    ELSE IF IsLeafObj(b) THEN FALSE
    ELSE PyEq(a, b)

\* Cluster.__eq__(self, other): the loop runs over zip(keys, keys), which
\* stops with the shorter of the two
Cluster_eq(self, other) ==
    IF ~IsClusterObj(other) THEN FALSE
    ELSE \A i \in 1..Min(Len(self.ctrls), Len(other[2].ctrls)) :
            /\ self.ctrls[i].key = other[2].ctrls[i].key
            /\ ObjEq(ClusterAttr(self, self.ctrls[i].key),
                     ClusterAttr(other[2], other[2].ctrls[i].key))

-----------------------------------------------------------------------------
(* A Cluster compared with other objects *)

\* the members of the clusters compared: <<key, class, `value` keyword>>
EqLayouts ==
    {<< >>,
     << <<"x", "Numeric", Unset>> >>,
     << <<"x", "Numeric", Unset>>, <<"y", "Boolean", Unset>> >>,
     << <<"y", "Boolean", Unset>>, <<"x", "Numeric", Unset>> >>,
     << <<"name", "String", Unset>>, <<"x", "Numeric", Unset>> >>}

EqVals == {F(2), B(TRUE), I(2)}

\* a Cluster with this label, built from a layout
EqCluster(lay, label) ==
    [ctrls |-> [i \in 1..Len(lay) |-> [key |-> lay[i][1], ctl |-> i]],
     obj |-> [i \in 1..Len(lay) |-> MakeMember(lay[i], i)],
     cattrs |-> [a \in {"name", "ID", "type"} |->
                    IF a = "ID" THEN I(80)
                    ELSE IF a = "name" THEN Name(label) ELSE Name("Cluster")]]

\* the cluster after c.<item> = v for each <<item, v>> of assignments
RECURSIVE Assigned(_, _)
Assigned(st, assignments) ==
    IF assignments = <<>> THEN st
    ELSE Assigned(ClusterSetattr(st, assignments[1][1], assignments[1][2]).st,
                  Tail(assignments))

\* what a cluster is compared with: clusters as built and after assignments
\* to x, a member on its own, and values that are no controls
EqOperands ==
    {ClusterObj(EqCluster(lay, label)) : lay \in EqLayouts, label \in {"input", "other"}}
        \cup {ClusterObj(Assigned(EqCluster(lay, "input"), << <<"x", v>> >>)) :
                 lay \in EqLayouts \ {<< >>}, v \in EqVals}
        \cup {LeafObj(MakeMember(<<"x", "Numeric", Unset>>, 1)), I(1), None,
              T(<<F(0), B(FALSE)>>)}

InitEq ==
    /\ \E lay \in EqLayouts :
          /\ ctrls = EqCluster(lay, "input").ctrls
          /\ obj = EqCluster(lay, "input").obj
          /\ cattrs = EqCluster(lay, "input").cattrs
    /\ last = Idle
    /\ pre = [ctrls |-> ctrls, obj |-> obj, cattrs |-> cattrs]
    /\ remote = NoRemote

\* cluster == other
Compare(other) ==
    /\ last' = [op |-> "eq", item |-> "", arg |-> other, err |-> "none",
                ret |-> B(Cluster_eq(Snapshot, other))]
    /\ pre' = Snapshot
    /\ UNCHANGED <<ctrls, obj, cattrs, remote>>

NextEq ==
    \/ Ready /\ \E item \in KeySet(ctrls), v \in EqVals : SetAttr(item, v)
    \/ Ready /\ \E other \in EqOperands : Compare(other)
    \/ Return

SpecEq == InitEq /\ [][NextEq]_vars

\* the two clusters have the same member names in the same order and the
\* members at each position are equal
SameMembers(a, b) ==
    /\ Keys(a.ctrls) = Keys(b.ctrls)
    /\ \A i \in 1..Len(a.ctrls) :
          LV_Control_eq(a.obj[a.ctrls[i].ctl], LeafObj(b.obj[b.ctrls[i].ctl]))

\* C19: a Cluster compared with another Cluster is equal exactly when the two
\* have the same member names in the same order and equal members position by
\* position; compared with anything that is not a Cluster it is not equal.
C19_ClusterEquality ==
    last.op = "eq" =>
        IF IsClusterObj(last.arg)
        THEN (last.ret = B(TRUE)) <=> SameMembers(Snapshot, last.arg[2])
        ELSE last.ret = B(FALSE)

-----------------------------------------------------------------------------
(* vistrings: repairing the exported VI strings.  A text is the sequence of
   its characters. *)

\* the pattern p occurs in s at position i
StartsAt(s, i, p) ==
    /\ i >= 1
    /\ i + Len(p) - 1 <= Len(s)
    /\ \A k \in 1..Len(p) : s[i + k - 1] = p[k]

\* the least position from i on where p occurs, 0 when there is none
Find(s, i, p) ==
    IF \E j \in i..Len(s) : StartsAt(s, j, p)
    THEN CHOOSE j \in i..Len(s) :
            StartsAt(s, j, p) /\ \A k \in i..(j - 1) : ~StartsAt(s, k, p)
    ELSE 0

\* the least position from i on holding a character of chars, 0 when none
FindChar(s, i, chars) ==
    IF \E j \in i..Len(s) : s[j] \in chars
    THEN CHOOSE j \in i..Len(s) : s[j] \in chars /\ \A k \in i..(j - 1) : s[k] \notin chars
    ELSE 0

From(s, i) == SubSeq(s, i, Len(s))

PART_open == <<"<", "P", "A", "R", "T", " ">>
type_Text == <<"t", "y", "p", "e", "=", "\"", "T", "e", "x", "t", "\"", ">">>
PART_close == <<"<", "/", "P", "A", "R", "T", ">">>

\* _removeparttext from position i on: '(<PART .*?type="Text">)(.*?)(</PART>)'
\* keeps groups 1 and 3
RECURSIVE removeparttext_from(_, _)
removeparttext_from(s, i) ==
    LET j == Find(s, i, PART_open)
        k == IF j = 0 THEN 0 ELSE Find(s, j + Len(PART_open), type_Text)
        m == IF k = 0 THEN 0 ELSE Find(s, k + Len(type_Text), PART_close)
    IN  IF m = 0 THEN From(s, i)
        ELSE SubSeq(s, i, k + Len(type_Text) - 1) \o PART_close
                \o removeparttext_from(s, m + Len(PART_close))

_removeparttext(vistr) == removeparttext_from(vistr, 1)

Whitespace == {" "}
Quote == "\""

\* _addquotes from position i on: '=(?!")(.*?)([\s>])' becomes ="attr"end
RECURSIVE addquotes_from(_, _)
addquotes_from(s, i) ==
    IF i > Len(s) THEN <<>>
    ELSE IF /\ s[i] = "="
            /\ ~StartsAt(s, i + 1, <<Quote>>)
            /\ FindChar(s, i + 1, Whitespace \cup {">"}) # 0
    THEN <<"=", Quote>>
            \o SubSeq(s, i + 1, FindChar(s, i + 1, Whitespace \cup {">"}) - 1)
            \o <<Quote, s[FindChar(s, i + 1, Whitespace \cup {">"})]>>
            \o addquotes_from(s, FindChar(s, i + 1, Whitespace \cup {">"}) + 1)
    ELSE <<s[i]>> \o addquotes_from(s, i + 1)

_addquotes(vistr) == addquotes_from(vistr, 1)

\* one round of the loop of _de_embed_elements: '<(</?element>)>'
RECURSIVE de_embed_element(_, _, _)
de_embed_element(s, i, element) ==
    IF i > Len(s) THEN <<>>
    ELSE IF StartsAt(s, i, <<"<", "<">> \o element \o <<">", ">">>)
    THEN <<"<">> \o element \o <<">">>
            \o de_embed_element(s, i + Len(element) + 4, element)
    ELSE IF StartsAt(s, i, <<"<", "<", "/">> \o element \o <<">", ">">>)
    THEN <<"<", "/">> \o element \o <<">">>
            \o de_embed_element(s, i + Len(element) + 5, element)
    ELSE <<s[i]>> \o de_embed_element(s, i + 1, element)

\* the number of digits from position i on
RECURSIVE DigitRun(_, _)
DigitRun(s, i) ==
    IF i <= Len(s) /\ s[i] \in {Digits[d] : d \in 1..Len(Digits)} THEN 1 + DigitRun(s, i + 1) ELSE 0

\* '<<([0-9]+)>>' becomes __digits__
RECURSIVE de_embed_number(_, _)
de_embed_number(s, i) ==
    IF i > Len(s) THEN <<>>
    ELSE IF /\ StartsAt(s, i, <<"<", "<">>)
            /\ DigitRun(s, i + 2) > 0
            /\ StartsAt(s, i + 2 + DigitRun(s, i + 2), <<">", ">">>)
    THEN <<"_", "_">> \o SubSeq(s, i + 2, i + 1 + DigitRun(s, i + 2)) \o <<"_", "_">>
            \o de_embed_number(s, i + 4 + DigitRun(s, i + 2))
    ELSE <<s[i]>> \o de_embed_number(s, i + 1)

Element_B == <<"B">>
Element_append == <<"a", "p", "p", "e", "n", "d">>

_de_embed_elements(vistr) ==
    de_embed_number(
        de_embed_element(de_embed_element(vistr, 1, Element_B), 1, Element_append), 1)

\* the elements the export leaves without a closing tag
CloserLess ==
    <<<<"N", "O", "_", "T", "I", "T", "L", "E">>,
      <<"F", "O", "N", "T">>,
      <<"L", "F">>,
      <<"C", "R", "L", "F">>,
      <<"S", "A", "M", "E", "_", "A", "S", "_", "L", "A", "B", "E", "L">>,
      Element_append,
      <<"N", "O", "N", "_", "S", "T", "R", "I", "N", "G">>,
      <<"S", "E", "P">>>>

\* one round of the loop of _close_elements: every '<element.*?>' gets
\* '</element>' behind it
RECURSIVE close_element(_, _, _)
close_element(s, i, element) ==
    IF i > Len(s) THEN <<>>
    ELSE IF /\ StartsAt(s, i, <<"<">> \o element)
            /\ FindChar(s, i + 1 + Len(element), {">"}) # 0
    THEN SubSeq(s, i, FindChar(s, i + 1 + Len(element), {">"}))
            \o <<"<", "/">> \o element \o <<">">>
            \o close_element(s, FindChar(s, i + 1 + Len(element), {">"}) + 1, element)
    ELSE <<s[i]>> \o close_element(s, i + 1, element)

RECURSIVE close_elements_from(_, _)
close_elements_from(s, n) ==
    IF n > Len(CloserLess) THEN s
    ELSE close_elements_from(close_element(s, 1, CloserLess[n]), n + 1)

_close_elements(vistr) == close_elements_from(vistr, 1)

\* re.subn of a fixed text `from`, not followed by a character of `unless`
RECURSIVE SubAll(_, _, _, _, _)
SubAll(s, i, from, to, unless) ==
    IF i > Len(s) THEN <<>>
    ELSE IF /\ StartsAt(s, i, from)
            /\ ~(i + Len(from) <= Len(s) /\ s[i + Len(from)] \in unless)
    THEN to \o SubAll(s, i + Len(from), from, to, unless)
    ELSE <<s[i]>> \o SubAll(s, i + 1, from, to, unless)

\* the least e from `from` on with s[e] = ">" after a character that is not ">"
LeastEnd(s, from) ==
    IF \E e \in from..Len(s) : s[e] = ">" /\ s[e - 1] # ">"
    THEN CHOOSE e \in from..Len(s) :
            /\ s[e] = ">" /\ s[e - 1] # ">"
            /\ \A d \in from..(e - 1) : ~(s[d] = ">" /\ s[d - 1] # ">")
    ELSE 0

\* where the match of '<[^<]/?.*?[^>]>' that starts at i ends, 0 when none
\* does: '/?' takes a slash when that leads to a match
TagEnd(s, i) ==
    IF ~(s[i] = "<" /\ i + 1 <= Len(s) /\ s[i + 1] # "<") THEN 0
    ELSE IF i + 2 <= Len(s) /\ s[i + 2] = "/" /\ LeastEnd(s, i + 4) # 0
    THEN LeastEnd(s, i + 4)
    ELSE LeastEnd(s, i + 3)

\* the positions inside the tag spans found from i on (re.finditer)
RECURSIVE tag_spans(_, _)
tag_spans(s, i) ==
    IF i > Len(s) THEN {}
    ELSE IF TagEnd(s, i) # 0 THEN (i..TagEnd(s, i)) \cup tag_spans(s, TagEnd(s, i) + 1)
    ELSE tag_spans(s, i + 1)

Entity_noamp == {<<"l", "t", ";">>, <<"g", "t", ";">>}

\* PREDEFINEDS: where '&(?!lt;|gt;)' matches
AmpLocs(s) ==
    {i \in 1..Len(s) : s[i] = "&" /\ \A e \in Entity_noamp : ~StartsAt(s, i + 1, e)}

\* PREDEFINEDS: where '""' matches, from i on
RECURSIVE QuotLocs(_, _)
QuotLocs(s, i) ==
    IF i > Len(s) THEN {}
    ELSE IF StartsAt(s, i, <<Quote, Quote>>) THEN {i} \cup QuotLocs(s, i + 2)
    ELSE QuotLocs(s, i + 1)

\* the last loop of _predefinedentities: the substitutions in order of place
RECURSIVE substitute(_, _, _, _)
substitute(s, i, amps, quots) ==
    IF i > Len(s) THEN <<>>
    ELSE IF i \in amps THEN <<"&", "a", "m", "p", ";">> \o substitute(s, i + 1, amps, quots)
    ELSE IF i \in quots THEN <<"&", "q", "u", "o", "t", ";">> \o substitute(s, i + 2, amps, quots)
    ELSE <<s[i]>> \o substitute(s, i + 1, amps, quots)

\* the two doubled brackets become entities
Brackets(vistr) ==
    SubAll(SubAll(vistr, 1, <<"<", "<">>, <<"&", "l", "t", ";">>, {}), 1,
           <<">", ">">>, <<"&", "g", "t", ";">>, {">"})

\* substitutions made inside tag spans as well
Escaped_Everywhere(s) == substitute(s, 1, AmpLocs(s), QuotLocs(s, 1))

Escaped(s) ==
    substitute(s, 1, AmpLocs(s) \ tag_spans(s, 1), QuotLocs(s, 1) \ tag_spans(s, 1))

_predefinedentities(vistr) == Escaped(Brackets(vistr))

\* _styledtext from i on: '<B>(.*?)</B>' becomes a CDATA section
RECURSIVE styledtext_from(_, _)
styledtext_from(s, i) ==
    IF i > Len(s) THEN <<>>
    ELSE IF StartsAt(s, i, <<"<", "B", ">">>) /\ Find(s, i + 3, <<"<", "/", "B", ">">>) # 0
    THEN <<"<", "!", "[", "C", "D", "A", "T", "A", "[">> \o SubSeq(s, i + 3, Find(s, i + 3, <<"<", "/", "B", ">">>) - 1) \o <<"]", "]", ">">>
            \o styledtext_from(s, Find(s, i + 3, <<"<", "/", "B", ">">>) + 4)
    ELSE <<s[i]>> \o styledtext_from(s, i + 1)

_styledtext(vistr) == styledtext_from(vistr, 1)

_vistr2xml(vistr) ==
    _styledtext(_predefinedentities(_close_elements(_de_embed_elements(
        _addquotes(_removeparttext(vistr))))))

-----------------------------------------------------------------------------
(* Exported VI strings being repaired, and the output repaired again *)

MaxPieces == 2

\* what the description of a control is put together from
Pieces ==
    {<<"a">>, <<"<", "L", "F", ">">>, <<"&">>, <<"\"", "\"">>, <<"<", "<">>, <<">", ">">>, <<"<", "<", "B", ">", ">", "a", "<", "<", "/", "B", ">", ">">>, <<"<", "F", "O", "N", "T", " ", "f", "=", "1", ">">>,
     <<"<", "P", "A", "R", "T", " ", "t", "y", "p", "e", "=", "\"", "T", "e", "x", "t", "\"", ">", "a", "<", "/", "P", "A", "R", "T", ">">>}

Attributes == {<<>>, <<" ", "n", "=", "3">>, <<" ", "n", "=", "\"", "3", "\"">>}

RECURSIVE Concat(_)
Concat(parts) == IF parts = <<>> THEN <<>> ELSE Head(parts) \o Concat(Tail(parts))

\* the export of one control
Export(attribute, parts) ==
    <<"<", "C">> \o attribute \o <<">", "<", "D", ">">> \o Concat(parts) \o <<"<", "/", "D", ">", "<", "/", "C", ">">>

Exports ==
    {Export(attribute, parts) :
        attribute \in Attributes, parts \in SeqsOver(Pieces, MaxPieces)}

InitXml ==
    /\ remote \in Exports
    /\ ctrls = <<>>
    /\ obj = <<>>
    /\ cattrs = <<>>
    /\ last = Idle
    /\ pre = [ctrls |-> ctrls, obj |-> obj, cattrs |-> cattrs]

\* _vistr2xml(vistr) is called and returns; item tells what vistr was
Vistr2xml(item, vistr) ==
    /\ last' = [op |-> "_vistr2xml", item |-> item, arg |-> vistr, err |-> "none",
                ret |-> _vistr2xml(vistr)]
    /\ pre' = Snapshot
    /\ UNCHANGED <<ctrls, obj, cattrs, remote>>

\* the export is repaired
Repair == Vistr2xml("export", remote)

\* what the last call returned is repaired again
RepairAgain ==
    /\ last.op = "_vistr2xml"
    /\ last.item = "export"
    /\ Vistr2xml("output", last.ret)

NextXml ==
    \/ Ready /\ Repair
    \/ RepairAgain
    \/ Return

SpecXml == InitXml /\ [][NextXml]_vars

\* C20: _vistr2xml applied to text that is its own output returns that text.
C20_Idempotent ==
    (last.op = "_vistr2xml" /\ last.item = "output") => last.ret = last.arg

-----------------------------------------------------------------------------
(* The escape pass on its own *)

MaxEscPieces == 2

\* opening tags with and without escapes inside an attribute value
EscOpenTags ==
    {<<"<", "C", "D", ">">>, <<"<", "C", "D", " ", "n", "=", "\"", "\"", ">">>, <<"<", "C", "D", " ", "n", "=", "\"", "a", "&", "b", "\"", ">">>, <<"<", "C", "D", " ", "n", "=", "\"", "<", "<", "\"", ">">>, <<"<", "C", "D", " ", "n", "=", "\"", ">", ">", "\"", ">">>}

EscPieces == {<<"a">>, <<"&">>, <<"\"", "\"">>, <<"<", "<">>, <<">", ">">>, <<"&", "l", "t", ";">>}

EscInputs ==
    {open \o Concat(parts) \o <<"<", "/", "C", "D", ">">> :
        open \in EscOpenTags, parts \in SeqsOver(EscPieces, MaxEscPieces)}

InitEsc ==
    /\ remote \in EscInputs
    /\ ctrls = <<>>
    /\ obj = <<>>
    /\ cattrs = <<>>
    /\ last = Idle
    /\ pre = [ctrls |-> ctrls, obj |-> obj, cattrs |-> cattrs]

\* _predefinedentities(vistr) is called and returns
PredefinedEntities ==
    /\ last' = [op |-> "_predefinedentities", item |-> "", arg |-> remote,
                err |-> "none", ret |-> _predefinedentities(remote)]
    /\ pre' = Snapshot
    /\ UNCHANGED <<ctrls, obj, cattrs, remote>>

NextEsc ==
    \/ Ready /\ PredefinedEntities
    \/ Return

SpecEsc == InitEsc /\ [][NextEsc]_vars

\* the non-standard escape that starts at position i of s, <<>> when none does
EscapeAt(s, i, kinds) ==
    IF "amp" \in kinds /\ s[i] = "&" /\ ~StartsAt(s, i + 1, <<"l", "t", ";">>)
          /\ ~StartsAt(s, i + 1, <<"g", "t", ";">>) THEN <<"&">>
    ELSE IF "quot" \in kinds /\ StartsAt(s, i, <<"\"", "\"">>) THEN <<"\"", "\"">>
    ELSE IF "lt" \in kinds /\ StartsAt(s, i, <<"<", "<">>) THEN <<"<", "<">>
    ELSE IF "gt" \in kinds /\ StartsAt(s, i, <<">", ">">>) /\ ~StartsAt(s, i + 2, <<">">>) THEN <<">", ">">>
    ELSE <<>>

\* the standard entity for an escape
EntityFor(escape) ==
    IF escape = <<"&">> THEN <<"&", "a", "m", "p", ";">>
    ELSE IF escape = <<"\"", "\"">> THEN <<"&", "q", "u", "o", "t", ";">>
    ELSE IF escape = <<"<", "<">> THEN <<"&", "l", "t", ";">>
    ELSE <<"&", "g", "t", ";">>

\* s with the escapes that start at the positions of R made entities and every
\* other character kept
RECURSIVE RewriteAt(_, _, _, _)
RewriteAt(s, i, R, kinds) ==
    IF i > Len(s) THEN <<>>
    ELSE IF i \in R /\ EscapeAt(s, i, kinds) # <<>>
    THEN EntityFor(EscapeAt(s, i, kinds))
            \o RewriteAt(s, i + Len(EscapeAt(s, i, kinds)), R, kinds)
    ELSE <<s[i]>> \o RewriteAt(s, i + 1, R, kinds)

AllEscapes == {"amp", "quot", "lt", "gt"}

\* the positions outside the tag spans of s where an escape starts
OutsideEscapes(s, kinds) ==
    {i \in 1..Len(s) : EscapeAt(s, i, kinds) # <<>> /\ i \notin tag_spans(s, 1)}

BracketsEverywhere(s) == RewriteAt(s, 1, 1..Len(s), {"lt", "gt"})

-----------------------------------------------------------------------------
(* VI.run step by step: the push, the coroutines _run and _spinner gathered
   in _task, asyncio.wait_for with its timeout, and the remote VI executing.
   The controls are listed as the loops of run and _run meet them: a child of
   a tab page stands where its TabControl stands, with tab = TRUE. *)

DataFlows == {"CONTROL", "INDICATOR", "UNKNOWN"}

\* LV_Control.set_dataflow(direction) on a control
set_dataflow(c, direction) == [dataflow |-> direction] @@ c

\* run's first loop sends this control's value
IsPushed(st, i) == CtrlAt(st, i).dataflow \in {"CONTROL", "UNKNOWN"}

RECURSIVE RunPushFrom(_, _)
RunPushFrom(st, i) ==
    IF i > Len(st.ctrls) THEN st
    ELSE IF IsPushed(st, i)
    THEN RunPushFrom([st EXCEPT !.panel =
                         SetControlValue(st.panel, st.ctrls[i].key, Tagged(CtrlAt(st, i)))],
                     i + 1)
    ELSE RunPushFrom(st, i + 1)

\* the else branch of _run gets this control's value: a child of a tab page
\* and any other control by its dataflow, but a top-level ArrayCluster or
\* Numeric whatever its dataflow
IsPulled(st, i) ==
    IF st.ctrls[i].tab THEN CtrlAt(st, i).dataflow \in {"INDICATOR", "UNKNOWN"}
    ELSE IF CtrlAt(st, i).cls \in {"ArrayCluster", "Numeric"} THEN TRUE
    ELSE CtrlAt(st, i).dataflow \in {"INDICATOR", "UNKNOWN"}

RunPullOne(st, i) ==
    IF ~IsPulled(st, i) THEN Ok(st)
    ELSE IF st.ctrls[i].tab
    THEN Stored(st, st.ctrls[i].ctl,
                SetValue(CtrlAt(st, i), Stripped(CtrlAt(st, i), GetControlValue(st, i))))
    ELSE PullOne(st, i, {})

RECURSIVE RunPullFrom(_, _)

RunPullNext(r, i) == IF r.err # "none" THEN r ELSE RunPullFrom(r.st, i + 1)

\* (the outcome of one control is a value before the next one is taken)
RunPullFrom(st, i) ==
    IF i > Len(st.ctrls) THEN Ok(st)
    ELSE CHOOSE out \in {RunPullNext(r, i) : r \in {RunPullOne(st, i)}} : TRUE

\* the names whose values the two loops send and get
PushedNames(st) == {st.ctrls[i].key : i \in {j \in 1..Len(st.ctrls) : IsPushed(st, j)}}
PulledNames(st) == {st.ctrls[i].key : i \in {j \in 1..Len(st.ctrls) : IsPulled(st, j)}}

\* the timeouts run is given: None, one that wait_for finds expired at once
\* (timeout <= 0), and one that can elapse while the task runs
Timeouts == {"none", "expired", "positive"}

\* where run stands after its first loop: the coroutines are not started;
\* ran and aborted tell whether Run and Abort were issued on the remote VI
RunCalled(st, timeout) ==
    [op |-> "run", item |-> "", arg |-> timeout, err |-> "none",
     run |-> "unstarted", spinner |-> "unstarted", pushed |-> PushedNames(st),
     pulled |-> {}, ran |-> FALSE, aborted |-> FALSE, timedout |-> FALSE,
     done |-> FALSE]

\* a cancellation that never reaches _run
cancel_SpinnerOnly(l) ==
    [l EXCEPT !.spinner = IF @ = "polling" THEN "cancelled" ELSE @,
              !.timedout = TRUE, !.done = TRUE]

\* wait_for cancels the task: gather cancels the coroutines still waiting,
\* _run meets CancelledError in its sleep and issues Abort
cancel(l) ==
    [l EXCEPT !.run = IF @ = "polling" THEN "cancelled" ELSE @,
              !.spinner = IF @ = "polling" THEN "cancelled" ELSE @,
              !.aborted = (l.run = "polling"),
              !.timedout = TRUE, !.done = TRUE]

\* a loop that never breaks
poll_Forever(pc, exec) == pc

\* one turn of `await asyncio.sleep(..); if ExecState == eIdle: break`
poll(pc, exec) == IF pc = "polling" /\ exec = "idle" THEN "done" ELSE pc

\* what run raises or returns once wait_for has cancelled the task, which
\* swallowed the CancelledError and returned: wait_for then raises
\* TimeoutError or returns the task's result, as the asyncio at hand has it
AfterCancel == {"TimeoutError", "none"}

-----------------------------------------------------------------------------
(* A VI being run *)

\* the controls of the VI run: <<name, declared type, child of a tab page>>
RunConfig ==
    << <<"n", "Numeric", FALSE>>, <<"s", "String", FALSE>>, <<"m", "Numeric", TRUE>> >>

InitRun ==
    /\ ctrls = [i \in 1..Len(RunConfig) |->
                   [key |-> RunConfig[i][1], ctl |-> i, tab |-> RunConfig[i][3]]]
    /\ obj = [i \in 1..Len(RunConfig) |->
                 set_dataflow(MakeVIControl(<<RunConfig[i][1], RunConfig[i][2], None>>, i),
                              "UNKNOWN")]
    /\ \E panel \in Panels(ctrls, obj) : remote = [panel |-> panel, exec |-> "idle"]
    /\ cattrs = <<>>
    /\ last = Idle
    /\ pre = Snapshot

RunState == [ctrls |-> ctrls, obj |-> obj, panel |-> remote.panel]

Running == last.op = "run" /\ ~last.done

\* ctrl.set_dataflow(direction)
SetDataflow(item, direction) ==
    /\ obj' = [obj EXCEPT ![DictGet(ctrls, item)] = set_dataflow(@, direction)]
    /\ last' = [op |-> "set_dataflow", item |-> item, arg |-> direction, err |-> "none"]
    /\ pre' = Snapshot
    /\ UNCHANGED <<ctrls, cattrs, remote>>

\* vi.run(timeout) is called: the first loop sends the values
RunBegin(timeout) ==
    /\ remote' = [remote EXCEPT !.panel = RunPushFrom(RunState, 1).panel]
    /\ last' = RunCalled(RunState, timeout)
    /\ pre' = Snapshot
    /\ UNCHANGED <<ctrls, obj, cattrs>>

\* wait_for with a timeout <= 0 cancels the task before its first step: no
\* coroutine starts, TimeoutError comes back
WaitForExpired ==
    /\ Running /\ last.arg = "expired" /\ last.run = "unstarted"
    /\ last' = [last EXCEPT !.timedout = TRUE, !.done = TRUE, !.err = "TimeoutError"]
    /\ UNCHANGED <<ctrls, obj, cattrs, pre, remote>>

\* the first steps of the gathered coroutines: _run issues Run(True)
TaskStart ==
    /\ Running /\ last.arg # "expired" /\ last.run = "unstarted"
    /\ remote' = [remote EXCEPT !.exec = "running"]
    /\ last' = [last EXCEPT !.run = "polling", !.spinner = "polling", !.ran = TRUE]
    /\ UNCHANGED <<ctrls, obj, cattrs, pre>>

\* the remote VI completes and shows its values
RemoteFinish ==
    /\ remote.exec = "running"
    /\ \E panel \in Panels(ctrls, obj) : remote' = [panel |-> panel, exec |-> "idle"]
    /\ UNCHANGED <<ctrls, obj, cattrs, last, pre>>

\* _run wakes from its sleep: idle seen, it breaks and gets the values
RunPoll ==
    /\ Running /\ last.run = "polling"
    /\ poll(last.run, remote.exec) = "done"
    /\ \E r \in {RunPullFrom(RunState, 1)} :
          /\ obj' = r.st.obj
          /\ last' = [last EXCEPT !.run = "done", !.pulled = PulledNames(RunState),
                                  !.err = r.err, !.done = (r.err # "none")]
    /\ UNCHANGED <<ctrls, cattrs, pre, remote>>

\* _spinner wakes from its sleep: idle seen, it breaks
SpinPoll ==
    /\ Running /\ last.spinner = "polling"
    /\ poll(last.spinner, remote.exec) = "done"
    /\ last' = [last EXCEPT !.spinner = "done"]
    /\ UNCHANGED <<ctrls, obj, cattrs, pre, remote>>

\* the timeout elapses while the task is not finished
Timeout ==
    /\ Running /\ last.arg = "positive"
    /\ last.run # "unstarted"
    /\ ~(last.run = "done" /\ last.spinner = "done")
    /\ remote' = [remote EXCEPT !.exec = IF cancel(last).aborted THEN "idle" ELSE @]
    /\ \E e \in AfterCancel : last' = [cancel(last) EXCEPT !.err = e]
    /\ UNCHANGED <<ctrls, obj, cattrs, pre>>

\* both coroutines are finished: gather, _task and wait_for return
TaskDone ==
    /\ Running /\ last.run = "done" /\ last.spinner = "done"
    /\ last' = [last EXCEPT !.done = TRUE]
    /\ UNCHANGED <<ctrls, obj, cattrs, pre, remote>>

\* the caller takes the outcome
ReturnRun ==
    /\ ~Running
    /\ last.op # "idle"
    /\ last' = Idle
    /\ pre' = Snapshot
    /\ UNCHANGED <<ctrls, obj, cattrs, remote>>

NextRun ==
    \/ Ready /\ \E item \in KeySet(ctrls), direction \in DataFlows :
                   SetDataflow(item, direction)
    \/ Ready /\ \E timeout \in Timeouts : RunBegin(timeout)
    \/ WaitForExpired
    \/ TaskStart
    \/ RemoteFinish
    \/ RunPoll
    \/ SpinPoll
    \/ Timeout
    \/ TaskDone
    \/ ReturnRun

SpecRun == InitRun /\ [][NextRun]_vars

\* a step of the event loop or of the remote VI that takes the run forward
RunStep == TaskStart \/ WaitForExpired \/ RemoteFinish \/ RunPoll \/ SpinPoll \/ TaskDone

\* the event loop runs a coroutine that is ready, and the remote VI completes
FairRun == WF_vars(RunStep)

SpecRunFair == InitRun /\ [][NextRun]_vars /\ FairRun

-----------------------------------------------------------------------------
(* Claims about VI.run (SpecRun, SpecRunFair) *)

\* run has ended by its timeout with _run never having seen the remote idle
TimedOutBeforeIdle ==
    last.op = "run" /\ last.done /\ last.timedout /\ last.run # "done"

C23_TimeoutReported == TimedOutBeforeIdle => last.err = "TimeoutError"

\* C27: in a run every control whose dataflow is CONTROL or UNKNOWN has been
\* pushed when Run is issued, no INDICATOR is pushed, values are pulled only
\* once _run has seen the remote idle, and only for controls whose dataflow
\* is INDICATOR or UNKNOWN.
C27_PushThenPull ==
    last.op = "run" =>
        /\ \A i \in 1..Len(ctrls) :
              /\ (last.ran /\ obj[ctrls[i].ctl].dataflow \in {"CONTROL", "UNKNOWN"})
                    => ctrls[i].key \in last.pushed
              /\ obj[ctrls[i].ctl].dataflow = "INDICATOR" => ctrls[i].key \notin last.pushed
              /\ ctrls[i].key \in last.pulled
                    => obj[ctrls[i].ctl].dataflow \in {"INDICATOR", "UNKNOWN"}
        /\ (last.pulled # {} \/ obj # pre.obj) => last.run = "done"

\* a run without timeout is under way
RunUnderWay == last.op = "run" /\ last.arg = "none" /\ ~last.done

\* run has returned, both loops have left after idle was seen, and the local
\* values are those the remote shows
RunReturned ==
    /\ last.op = "run" /\ last.done /\ last.err = "none"
    /\ last.run = "done" /\ last.spinner = "done"
    /\ remote.exec = "idle"
    /\ last.pulled = PulledNames(RunState)
    /\ \A i \in 1..Len(ctrls) :
          IsPulled(RunState, i) => obj[ctrls[i].ctl].value = remote.panel[ctrls[i].key]

\* C28: with no timeout, the remote VI becoming idle and staying idle, run
\* eventually returns, both loops having left and the values pulled.
C28_RunReturns == RunUnderWay ~> RunReturned

\* a run without timeout has returned with a value pulled
C28_Witness ==
    /\ RunReturned
    /\ last.arg = "none"
    /\ obj # pre.obj

-----------------------------------------------------------------------------
(* App: the connection to the LabVIEW application *)

\* how many times LabVIEW is started, and how many connections are opened
MaxLaunch == 3
MaxDispatch == 4

\* a reference got from the LabVIEW instance inst: the application object
\* and the error database VI
Com(inst) == <<"com", inst>>
ViRef(inst) == <<"viref", inst>>

\* LabVIEW answers a call through the reference
Alive(app_remote, ref) ==
    /\ Kind(ref) \in {"com", "viref"}
    /\ app_remote.running
    /\ ref[2] = app_remote.inst

\* win32com.client.Dispatch("LabVIEW.Application"): attaches to the running
\* LabVIEW or starts it
Dispatch(app_remote) ==
    IF app_remote.running
    THEN [app_remote EXCEPT !.conns = @ + 1]
    ELSE [running |-> TRUE, user |-> FALSE, inst |-> app_remote.inst + 1,
          conns |-> app_remote.conns + 1]

\* App.__enter__
App_enter(self, app_remote) ==
    IF self._lv \in {Unset, None}
    THEN [self |-> [_lv |-> Com(Dispatch(app_remote).inst),
                    _errvi |-> ViRef(Dispatch(app_remote).inst)],
          remote |-> Dispatch(app_remote), err |-> "none"]
    ELSE [self |-> self, remote |-> app_remote, err |-> "none"]

\* self._lv.Quit(): LabVIEW exits unless it was running before the
\* connection was made
Quit(app_remote) ==
    IF app_remote.user THEN app_remote ELSE [app_remote EXCEPT !.running = FALSE]

\* App.close
App_close(self, app_remote) ==
    IF self._lv \in {Unset, None}
    THEN \* AttributeError: passed over
         [self |-> self, remote |-> app_remote, err |-> "none"]
    ELSE IF ~Alive(app_remote, self._lv)
    THEN \* Quit on a LabVIEW that is gone
         [self |-> self, remote |-> app_remote, err |-> "com_error"]
    ELSE IF Alive(Quit(app_remote), self._lv)
    THEN [self |-> self, remote |-> Quit(app_remote), err |-> "none"]
    ELSE [self |-> [_lv |-> None, _errvi |-> None],
          remote |-> Quit(app_remote), err |-> "none"]

\* App() with LabVIEW running or not: __init__ enters
InitApp ==
    /\ \E before \in BOOLEAN :
          /\ obj = App_enter([_lv |-> Unset, _errvi |-> Unset],
                             [running |-> before, user |-> before,
                              inst |-> IF before THEN 1 ELSE 0, conns |-> 0]).self
          /\ remote = App_enter([_lv |-> Unset, _errvi |-> Unset],
                                [running |-> before, user |-> before,
                                 inst |-> IF before THEN 1 ELSE 0, conns |-> 0]).remote
    /\ ctrls = <<>>
    /\ cattrs = <<>>
    /\ last = Idle
    /\ pre = Snapshot

AppCalled(op, r, conns) ==
    /\ obj' = r.self
    /\ remote' = r.remote
    /\ last' = [op |-> op, item |-> "", arg |-> None, err |-> r.err, conns |-> conns]
    /\ pre' = Snapshot
    /\ UNCHANGED <<ctrls, cattrs>>

\* `with lv:`
Enter ==
    /\ remote.conns < MaxDispatch
    /\ (remote.running \/ remote.inst < MaxLaunch)
    /\ AppCalled("__enter__", App_enter(obj, remote), remote.conns)

\* the with block is left
Exit == AppCalled("__exit__", App_close(obj, remote), remote.conns)

\* lv.close()
Close == AppCalled("close", App_close(obj, remote), remote.conns)

\* App.__repr__
App_repr(self, app_remote) ==
    IF self._lv = None THEN [ret |-> "<LabVIEW not running>", err |-> "none"]
    ELSE IF Alive(app_remote, self._lv) THEN [ret |-> "<LabVIEW version>", err |-> "none"]
    ELSE [ret |-> "", err |-> "com_error"]

\* repr(lv)
Repr ==
    /\ last' = [op |-> "__repr__", item |-> "", arg |-> None,
                err |-> App_repr(obj, remote).err, conns |-> remote.conns,
                ret |-> App_repr(obj, remote).ret]
    /\ pre' = Snapshot
    /\ UNCHANGED <<ctrls, obj, cattrs, remote>>

\* the user leaves LabVIEW (File -> Exit)
UserExit ==
    /\ remote.running
    /\ remote' = [remote EXCEPT !.running = FALSE]
    /\ UNCHANGED <<ctrls, obj, cattrs, last, pre>>

\* the user starts LabVIEW
UserStart ==
    /\ ~remote.running
    /\ remote.inst < MaxLaunch
    /\ remote' = [remote EXCEPT !.running = TRUE, !.user = TRUE, !.inst = @ + 1]
    /\ UNCHANGED <<ctrls, obj, cattrs, last, pre>>

NextApp ==
    \/ Ready /\ Enter
    \/ Ready /\ Exit
    \/ Ready /\ Close
    \/ Ready /\ Repr
    \/ Ready /\ UserExit
    \/ Ready /\ UserStart
    \/ Return

SpecApp == InitApp /\ [][NextApp]_vars

\* C24: after close or leaving the context the App holds no connection if
\* LabVIEW has exited and keeps its references if LabVIEW still runs;
\* entering opens a connection only when none is held, and after a close
\* that let go of the connection it connects again.
C24_Connection ==
    /\ last.op \in {"close", "__exit__"} =>
          /\ ~remote.running => obj._lv = None /\ obj._errvi = None
          /\ (remote.running /\ Kind(pre.obj._lv) = "com") => obj = pre.obj
    /\ last.op = "__enter__" =>
          /\ Kind(pre.obj._lv) = "com" => obj = pre.obj /\ remote.conns = last.conns
          /\ pre.obj._lv = None =>
                /\ Alive(remote, obj._lv) /\ Alive(remote, obj._errvi)
                /\ remote.conns = last.conns + 1

-----------------------------------------------------------------------------
(* Claims about failed calls on a Cluster *)

\* C25: an assignment to a cluster's `value`, by mapping or by sequence, that
\* fails partway (an element rejected by its member, a key that is no member
\* name) leaves every member's value and the member order as they were.
C25_NoPartialUpdate ==
    (IsValueAssign /\ last.err # "none") =>
        /\ ctrls = pre.ctrls
        /\ obj = pre.obj

\* C26: when reorder_controls raises, the members, their order and their
\* values are what they were before the call.
C26_ReorderRaisesIntact ==
    (last.op = "reorder_controls" /\ last.err # "none") =>
        /\ ctrls = pre.ctrls
        /\ obj = pre.obj

-----------------------------------------------------------------------------
(* Claim about the value a leaf holds *)

\* C29: in every state, the one right after construction with a `value`
\* keyword included, the value a leaf holds passes the test of its setter: a
\* String holds text, an Enum an integer, an IORefNum a tuple, a TimeStamp a
\* date-time, a Numeric a number, a Boolean a boolean.
C29_StoredValueValid ==
    /\ Leaf.cls = "String" => IsStr(Leaf.value)
    /\ Leaf.cls = "Enum" => IsInt(Leaf.value)
    /\ Leaf.cls \in IORefNumFamily => IsTuple(Leaf.value)
    /\ Leaf.cls = "TimeStamp" => IsDatetime(Leaf.value)
    /\ Leaf.cls = "Numeric" => IsNumber(Leaf.value)
    /\ Leaf.cls = "Boolean" => IsBool(Leaf.value)

-----------------------------------------------------------------------------
(* _recurse_ctrls: the controls of an element tree *)

\* the most children an element has
MaxKids == 2

TreeNames == {"a", "b", "c"}

\* <CONTROL type=.. name=..>: a Numeric, or a Cluster with its CONTENT
ControlElement(type, name, content) ==
    [tag |-> "CONTROL", type |-> type, name |-> name, kids |-> content]

\* <GROUPER><PARTS>..</PARTS></GROUPER>
GrouperElement(parts) ==
    [tag |-> "GROUPER", type |-> "", name |-> "", kids |-> parts]

\* the names of the controls of a tree
RECURSIVE TreeNamesFrom(_, _)

TreeNamesFrom(children, i) ==
    IF i > Len(children) THEN <<>>
    ELSE (IF children[i].tag = "CONTROL" THEN <<children[i].name>> ELSE <<>>)
         \o TreeNamesFrom(children[i].kids, 1)
         \o TreeNamesFrom(children, i + 1)

\* children lists over the elements X, no name used twice
KidsOver(X) ==
    {k \in SeqsOver(X, MaxKids) : Distinct(TreeNamesFrom(k, 1))}

NumericElements == {ControlElement("Numeric", n, <<>>) : n \in TreeNames}

\* elements one and two levels deep
Elements1 ==
    NumericElements
    \cup {GrouperElement(k) : k \in KidsOver(NumericElements) \ {<<>>}}
    \cup {ControlElement("Cluster", n, k) :
            n \in TreeNames, k \in KidsOver(NumericElements) \ {<<>>}}

Elements2 ==
    Elements1
    \cup {GrouperElement(k) : k \in KidsOver(Elements1) \ {<<>>}}
    \cup {ControlElement("Cluster", n, k) :
            n \in TreeNames, k \in KidsOver(Elements1) \ {<<>>}}

\* the children of the element the walker is given
Contents == KidsOver(Elements2)

\* controls[key] = attrs: a present key keeps its place
DictPut(controls, key, attrs) ==
    IF \E i \in 1..Len(controls) : controls[i].key = key
    THEN [i \in 1..Len(controls) |->
             IF controls[i].key = key THEN [key |-> key, attrs |-> attrs]
             ELSE controls[i]]
    ELSE Append(controls, [key |-> key, attrs |-> attrs])

RECURSIVE DictUpdate(_, _, _)

\* controls.update(other), from the i-th item of other on
DictUpdate(controls, other, i) ==
    IF i > Len(other) THEN controls
    ELSE DictUpdate(DictPut(controls, other[i].key, other[i].attrs), other, i + 1)

RECURSIVE recurse_ctrls(_)
RECURSIVE recurse_groupers(_, _, _)
RECURSIVE recurse_controls(_, _, _)

\* the first loop: for grouper in element.iterfind("GROUPER")
recurse_groupers(children, i, controls) ==
    IF i > Len(children) THEN controls
    ELSE IF children[i].tag # "GROUPER" THEN recurse_groupers(children, i + 1, controls)
    ELSE recurse_groupers(children, i + 1,
            DictUpdate(controls, recurse_ctrls(children[i].kids), 1))

\* the second loop: for control in element.iterfind("CONTROL")
recurse_controls(children, i, controls) ==
    IF i > Len(children) THEN controls
    ELSE IF children[i].tag # "CONTROL" THEN recurse_controls(children, i + 1, controls)
    ELSE recurse_controls(children, i + 1,
            DictPut(controls, children[i].name,
                    [type |-> children[i].type,
                     ctrls |-> IF children[i].type = "Cluster"
                               THEN recurse_ctrls(children[i].kids) ELSE <<>>]))

\* _recurse_ctrls(element), element given by its children
recurse_ctrls(children) ==
    recurse_controls(children, 1, recurse_groupers(children, 1, <<>>))

InitTree ==
    /\ remote \in Contents
    /\ ctrls = <<>>
    /\ obj = <<>>
    /\ cattrs = <<>>
    /\ last = Idle
    /\ pre = Snapshot

\* _recurse_ctrls(content)
RecurseCtrls ==
    /\ last' = [op |-> "_recurse_ctrls", item |-> "", arg |-> remote, err |-> "none",
                ret |-> recurse_ctrls(remote)]
    /\ pre' = Snapshot
    /\ UNCHANGED <<ctrls, obj, cattrs, remote>>

NextTree ==
    \/ Ready /\ RecurseCtrls
    \/ Return

SpecTree == InitTree /\ [][NextTree]_vars

\* the names of the controls of a container in the order they are declared,
\* those inside groupers taken where the grouper stands
RECURSIVE DeclaredFrom(_, _)

DeclaredFrom(children, i) ==
    IF i > Len(children) THEN <<>>
    ELSE (IF children[i].tag = "GROUPER" THEN DeclaredFrom(children[i].kids, 1)
          ELSE <<children[i].name>>)
         \o DeclaredFrom(children, i + 1)

\* the Cluster elements of a container, those inside groupers included
RECURSIVE ClustersFrom(_, _)

ClustersFrom(children, i) ==
    IF i > Len(children) THEN {}
    ELSE (IF children[i].tag = "GROUPER" THEN ClustersFrom(children[i].kids, 1)
          ELSE IF children[i].type = "Cluster" THEN {children[i]} ELSE {})
         \cup ClustersFrom(children, i + 1)

DictKeys(controls) == [i \in 1..Len(controls) |-> controls[i].key]
DictAt(controls, key) ==
    controls[CHOOSE i \in 1..Len(controls) : controls[i].key = key].attrs

\* C30: at each container level the walker's map lists the controls in the
\* order they are declared, the controls of groupers (of any depth) standing
\* in the enclosing container; so a Cluster's members are in declared order.
C30_DeclarationOrder ==
    last.op = "_recurse_ctrls" =>
        /\ DictKeys(last.ret) = DeclaredFrom(last.arg, 1)
        /\ \A c \in ClustersFrom(last.arg, 1) :
              DictKeys(DictAt(last.ret, c.name).ctrls) = DeclaredFrom(c.kids, 1)

=============================================================================
